---- MODULE Spec2Model ----
(***************************************************************************)
(* A model of XSSentinel's CSP capability adapter (utils/csp.py), payload   *)
(* mutation engine (payloads/mutator.py, payloads/evasions.py), scoring and *)
(* summary (reports/scoring.py), browser session, detector and fuzzing      *)
(* loops (crawler/browser_engine.py), page instrumentation                  *)
(* (detector/sandbox_executor.py) and run (cli/main.py).                    *)
(*                                                                         *)
(* Strings are sequences of characters; a character is a one-character      *)
(* TLA+ string, the control and non-ASCII characters being written by name  *)
(* ("TAB", "LF", "U+200B", ...).  Python's None is the record None below.   *)
(***************************************************************************)
EXTENDS Integers, Sequences, FiniteSets, TLC

----------------------------------------------------------------------------
(* Characters and the str methods the program uses                          *)

LowerLetters ==
    <<"a", "b", "c", "d", "e", "f", "g", "h", "i", "j", "k", "l", "m",
      "n", "o", "p", "q", "r", "s", "t", "u", "v", "w", "x", "y", "z">>

UpperLetters ==
    <<"A", "B", "C", "D", "E", "F", "G", "H", "I", "J", "K", "L", "M",
      "N", "O", "P", "Q", "R", "S", "T", "U", "V", "W", "X", "Y", "Z">>

LowerSet == {LowerLetters[i] : i \in 1..26}

UpperSet == {UpperLetters[i] : i \in 1..26}

\* str.isalpha() of one character
IsAlpha(ch) == ch \in LowerSet \/ ch \in UpperSet

LowerMap == [ch \in UpperSet |-> LowerLetters[CHOOSE i \in 1..26 : UpperLetters[i] = ch]]

UpperMap == [ch \in LowerSet |-> UpperLetters[CHOOSE i \in 1..26 : LowerLetters[i] = ch]]

\* str.lower() / str.upper() of one character
LowerCh(ch) == IF ch \in UpperSet THEN LowerMap[ch] ELSE ch

UpperCh(ch) == IF ch \in LowerSet THEN UpperMap[ch] ELSE ch

\* str.lower()
Lower(s) == [i \in 1..Len(s) |-> LowerCh(s[i])]

\* the characters str.strip() and str.split() treat as whitespace
Whitespace == {" ", "TAB", "LF", "CR", "FF", "VT"}

\* s[i:] with i counted from 1
Drop(s, i) == SubSeq(s, i, Len(s))

\* s.startswith(p, i): p occurs in s at position i
MatchAt(s, p, i) ==
    /\ i >= 1
    /\ i + Len(p) - 1 <= Len(s)
    /\ \A k \in 1..Len(p) : s[i + k - 1] = p[k]

\* p in s
Contains(s, p) == \E i \in 1..(Len(s) - Len(p) + 1) : MatchAt(s, p, i)

\* s.startswith(p)
StartsWith(s, p) == MatchAt(s, p, 1)

\* s.find(p) counted from 1, 0 when p does not occur
Find(s, p) ==
    IF Contains(s, p)
    THEN CHOOSE i \in 1..(Len(s) - Len(p) + 1) :
            /\ MatchAt(s, p, i)
            /\ \A j \in 1..(i - 1) : ~MatchAt(s, p, j)
    ELSE 0

RECURSIVE Replace(_, _, _)
\* s.replace(p, r) for a non-empty p: leftmost, non-overlapping
Replace(s, p, r) ==
    LET i == Find(s, p)
    IN  IF i = 0 THEN s
        ELSE SubSeq(s, 1, i - 1) \o r \o Replace(Drop(s, i + Len(p)), p, r)

RECURSIVE LStrip(_)
LStrip(s) == IF s # <<>> /\ Head(s) \in Whitespace THEN LStrip(Tail(s)) ELSE s

RECURSIVE RStrip(_)
RStrip(s) ==
    IF s # <<>> /\ s[Len(s)] \in Whitespace THEN RStrip(SubSeq(s, 1, Len(s) - 1)) ELSE s

\* s.strip()
Strip(s) == RStrip(LStrip(s))

RECURSIVE SplitOn(_, _)
\* s.split(sep) for a one-character sep: empty pieces are kept
SplitOn(s, sep) ==
    LET i == Find(s, <<sep>>)
    IN  IF i = 0 THEN <<s>>
        ELSE <<SubSeq(s, 1, i - 1)>> \o SplitOn(Drop(s, i + 1), sep)

RECURSIVE SplitWs(_)
\* s.split(): maximal runs of non-whitespace characters
SplitWs(s) ==
    LET t == LStrip(s)
        n == IF \E i \in 1..Len(t) : t[i] \in Whitespace
             THEN (CHOOSE i \in 1..Len(t) :
                      /\ t[i] \in Whitespace
                      /\ \A j \in 1..(i - 1) : t[j] \notin Whitespace) - 1
             ELSE Len(t)
    IN  IF t = <<>> THEN <<>>
        ELSE <<SubSeq(t, 1, n)>> \o SplitWs(Drop(t, n + 1))

\* the set of seq's elements
Range(seq) == {seq[i] : i \in 1..Len(seq)}

\* x in seq
InSeq(x, seq) == \E i \in 1..Len(seq) : seq[i] = x

\* Python's None, and Optional values
None == [some |-> FALSE, val |-> <<>>]

Some(v) == [some |-> TRUE, val |-> v]

----------------------------------------------------------------------------
(* utils/csp.py                                                             *)

KwScriptSrc == <<"s", "c", "r", "i", "p", "t", "-", "s", "r", "c">>

KwDefaultSrc == <<"d", "e", "f", "a", "u", "l", "t", "-", "s", "r", "c">>

KwUnsafeInline == <<"'", "u", "n", "s", "a", "f", "e", "-", "i", "n", "l", "i", "n", "e", "'">>

KwUnsafeEval == <<"'", "u", "n", "s", "a", "f", "e", "-", "e", "v", "a", "l", "'">>

KwData == <<"d", "a", "t", "a", ":">>

KwBlob == <<"b", "l", "o", "b", ":">>

\* [t.strip() for t in val.split() if t.strip()]
_parse_directive_list(val) == SplitWs(val)

\* one pass of the loop over header_value.split(";"): the (name, value) the
\* piece d contributes to the dict, or None for a piece that strips to ""
ParseDirective(piece) ==
    LET d == Strip(piece)
        i == Find(d, <<" ">>)
    IN  IF d = <<>> THEN None
        ELSE IF i # 0
             THEN Some([name |-> Lower(SubSeq(d, 1, i - 1)), val |-> Strip(Drop(d, i + 1))])
             ELSE Some([name |-> Lower(d), val |-> <<>>])

\* the directives of the header in the order the loop stores them
Directives(header_value) ==
    LET pieces == SplitOn(header_value, ";")
        parsed == [i \in 1..Len(pieces) |-> ParseDirective(pieces[i])]
    IN  SelectSeq(parsed, LAMBDA p : p.some)

\* directives.get(name): the dict keeps the last value stored under a key
DictGet(dirs, name) ==
    LET hits == {i \in 1..Len(dirs) : dirs[i].val.name = name}
    IN  IF hits = {} THEN None
        ELSE Some(dirs[CHOOSE i \in hits : \A j \in hits : j <= i].val.val)

\* script_src = directives.get("script-src"); if not script_src: script_src =
\* directives.get("default-src")   ("not" is true of None and of "")
SelectScriptSrc(dirs) ==
    LET s == DictGet(dirs, KwScriptSrc)
    IN  IF ~s.some \/ s.val = <<>> THEN DictGet(dirs, KwDefaultSrc) ELSE s

\* the all-permissive record parse_csp starts from
PermissiveInfo(raw) ==
    [raw |-> raw, script_src |-> <<>>, allows_inline |-> TRUE, allows_eval |-> TRUE,
     allows_data |-> TRUE, allows_blob |-> TRUE]

\* a mutant: keyword membership by substring of the value instead of by token
InfoFromSubstring(raw, val) ==
    [raw |-> raw, script_src |-> _parse_directive_list(val),
     allows_inline |-> Contains(val, KwUnsafeInline),
     allows_eval |-> Contains(val, KwUnsafeEval),
     allows_data |-> Contains(val, KwData),
     allows_blob |-> Contains(val, KwBlob)]

\* the record parse_csp fills in once a script directive is selected
InfoFromTokens(raw, val) ==
    LET tokens == _parse_directive_list(val)
    IN  [raw |-> raw, script_src |-> tokens,
         allows_inline |-> InSeq(KwUnsafeInline, tokens),
         allows_eval |-> InSeq(KwUnsafeEval, tokens),
         allows_data |-> InSeq(KwData, tokens),
         allows_blob |-> InSeq(KwBlob, tokens)]

\* a mutant: no selected directive is read as "everything blocked"
RestrictiveInfo(raw) ==
    [raw |-> raw, script_src |-> <<>>, allows_inline |-> FALSE, allows_eval |-> FALSE,
     allows_data |-> FALSE, allows_blob |-> FALSE]

\* what parse_csp returns when the header names no script directive
NoDirectiveInfo(raw) == PermissiveInfo(raw)

\* parse_csp(header_value), header_value an Optional string
parse_csp(header_value) ==
    IF ~header_value.some \/ header_value.val = <<>>
    THEN PermissiveInfo(<<>>)
    ELSE LET script_src == SelectScriptSrc(Directives(header_value.val))
         IN  IF script_src.some
             THEN InfoFromTokens(header_value.val, script_src.val)
             ELSE NoDirectiveInfo(header_value.val)

----------------------------------------------------------------------------
(* The random module.  The generator is one process-wide state; every draw  *)
(* advances it and returns a value that depends on the state alone.  The    *)
(* Mersenne Twister is abstracted to a 16-bit linear congruential           *)
(* generator: what the claims need is that seed() fixes the state and that  *)
(* equal states give equal draws.  A state r below is the state after the   *)
(* draw, which is also the value drawn.                                     *)

\* the state after one more draw
RngNext(r) == (r * 25173 + 13849) % 65536

\* random.seed(seed)
RngSeed(seed) == (seed * 40503 + 4099) % 65536

\* random.random() < pct / 100, r being the state after the draw
Chance(r, pct) == r * 100 < pct * 65536

\* random.randrange(n), r being the state after the draw
RandBelow(r, n) == (r * n) \div 65536

----------------------------------------------------------------------------
(* payloads/evasions.py.  Every transform takes the string and the          *)
(* generator's state and returns [s |-> the result, r |-> the state left].  *)

WS == <<" ", "TAB", "LF", "CR", "FF", "VT", "U+00A0", "U+2009", "U+200A", "U+200B", "U+200C", "U+200D">>

HTML_COMMENTS == <<<<"<", "!", "-", "-", "x", "-", "-", ">">>, <<"<", "!", "-", "-", "0", "-", "-", ">">>, <<"<", "!", "-", "-", "-", "-", ">">>>>

JS_COMMENTS == <<<<"/", "*", "*", "/">>, <<"/", "*", "0", "*", "/">>, <<"/", "/", "x", "LF">>>>

KEYWORDS ==
    <<<<"s", "c", "r", "i", "p", "t">>,
      <<"o", "n", "l", "o", "a", "d">>,
      <<"o", "n", "e", "r", "r", "o", "r">>,
      <<"o", "n", "c", "l", "i", "c", "k">>,
      <<"o", "n", "f", "o", "c", "u", "s">>,
      <<"o", "n", "m", "o", "u", "s", "e", "o", "v", "e", "r">>,
      <<"s", "v", "g">>,
      <<"i", "m", "g">>,
      <<"i", "f", "r", "a", "m", "e">>>>

EntityMapping ==
    ("<" :> <<<<"&", "#", "6", "0", ";">>, <<"&", "#", "x", "3", "c", ";">>>>) @@
    (">" :> <<<<"&", "#", "6", "2", ";">>, <<"&", "#", "x", "3", "e", ";">>>>) @@
    ("\"" :> <<<<"&", "#", "3", "4", ";">>, <<"&", "#", "x", "2", "2", ";">>>>) @@
    ("'" :> <<<<"&", "#", "3", "9", ";">>, <<"&", "#", "x", "2", "7", ";">>>>) @@
    ("/" :> <<<<"&", "#", "4", "7", ";">>, <<"&", "#", "x", "2", "f", ";">>>>) @@
    ("=" :> <<<<"&", "#", "6", "1", ";">>, <<"&", "#", "x", "3", "d", ";">>>>) @@
    ("(" :> <<<<"&", "#", "4", "0", ";">>, <<"&", "#", "x", "2", "8", ";">>>>) @@
    (")" :> <<<<"&", "#", "4", "1", ";">>, <<"&", "#", "x", "2", "9", ";">>>>) @@
    (":" :> <<<<"&", "#", "5", "8", ";">>, <<"&", "#", "x", "3", "a", ";">>>>)

HexMap ==
    ("<" :> <<"%", "3", "C">>) @@
    (">" :> <<"%", "3", "E">>) @@
    ("\"" :> <<"%", "2", "2">>) @@
    ("'" :> <<"%", "2", "7">>) @@
    (" " :> <<"%", "2", "0">>) @@
    ("#" :> <<"%", "2", "3">>) @@
    ("%" :> <<"%", "2", "5">>) @@
    ("{" :> <<"%", "7", "B">>) @@
    ("}" :> <<"%", "7", "D">>) @@
    ("|" :> <<"%", "7", "C">>) @@
    ("\\" :> <<"%", "5", "C">>) @@
    ("^" :> <<"%", "5", "E">>) @@
    ("~" :> <<"%", "7", "E">>) @@
    ("[" :> <<"%", "5", "B">>) @@
    ("]" :> <<"%", "5", "D">>) @@
    (";" :> <<"%", "3", "B">>) @@
    ("/" :> <<"%", "2", "F">>) @@
    ("?" :> <<"%", "3", "F">>) @@
    (":" :> <<"%", "3", "A">>) @@
    ("@" :> <<"%", "4", "0">>) @@
    ("=" :> <<"%", "3", "D">>) @@
    ("&" :> <<"%", "2", "6">>) @@
    ("$" :> <<"%", "2", "4">>) @@
    ("+" :> <<"%", "2", "B">>) @@
    ("," :> <<"%", "2", "C">>)

PhJsCmd == <<"{", "J", "S", "C", "M", "D", "}">>

\* _rand(seq)
_rand(seq, r) ==
    IF seq = <<>> THEN [s |-> <<>>, r |-> r]
    ELSE LET r1 == RngNext(r)
         IN  [s |-> seq[RandBelow(r1, Len(seq)) + 1], r |-> r1]

\* The bodies of the "for ch in s" loops below take and return the loop's
\* state st = [s |-> the characters of out so far, r |-> the generator].

\* case_shuffle's loop body, prob in percent
CaseShuffleCh(ch, prob, st) ==
    IF ~IsAlpha(ch) THEN [s |-> Append(st.s, ch), r |-> st.r]
    ELSE LET r1 == RngNext(st.r)
             r2 == RngNext(r1)
         IN  IF Chance(r1, prob)
             THEN [s |-> Append(st.s, IF Chance(r2, 50) THEN UpperCh(ch) ELSE LowerCh(ch)),
                   r |-> r2]
             ELSE [s |-> Append(st.s, ch), r |-> r1]

\* insert_ws_noise's loop body, density in percent
InsertWsCh(ch, density, st) ==
    LET r1 == RngNext(st.r)
        w == _rand(WS, r1)
    IN  IF Chance(r1, density)
        THEN [s |-> st.s \o <<ch, w.s>>, r |-> w.r]
        ELSE [s |-> Append(st.s, ch), r |-> r1]

\* the loop body of insert_comment_noise's repl_keyword
ReplKeywordCh(ch, st) ==
    LET r1 == RngNext(st.r)
        c == _rand(HTML_COMMENTS \o JS_COMMENTS, r1)
    IN  IF Chance(r1, 35)
        THEN [s |-> Append(st.s, ch) \o c.s, r |-> c.r]
        ELSE [s |-> Append(st.s, ch), r |-> r1]

\* html_entity_mangle's loop body, ratio in percent
HtmlEntityCh(ch, ratio, st) ==
    IF ch \notin DOMAIN EntityMapping THEN [s |-> Append(st.s, ch), r |-> st.r]
    ELSE LET r1 == RngNext(st.r)
             e == _rand(EntityMapping[ch], r1)
         IN  IF Chance(r1, ratio)
             THEN [s |-> st.s \o e.s, r |-> e.r]
             ELSE [s |-> Append(st.s, ch), r |-> r1]

\* url_mangle's loop body, ratio in percent
UrlMangleCh(ch, ratio, st) ==
    IF ch \notin DOMAIN HexMap THEN [s |-> Append(st.s, ch), r |-> st.r]
    ELSE LET r1 == RngNext(st.r)
         IN  IF Chance(r1, ratio)
             THEN [s |-> st.s \o HexMap[ch], r |-> r1]
             ELSE [s |-> Append(st.s, ch), r |-> r1]

\* zero_width_sprinkle's loop body, ratio in percent
ZeroWidthCh(ch, ratio, st) ==
    IF ~IsAlpha(ch) THEN [s |-> Append(st.s, ch), r |-> st.r]
    ELSE LET r1 == RngNext(st.r)
             z == _rand(<<"U+200B", "U+200C", "U+200D">>, r1)
         IN  IF Chance(r1, ratio)
             THEN [s |-> st.s \o <<ch, z.s>>, r |-> z.r]
             ELSE [s |-> Append(st.s, ch), r |-> r1]

\* one pass of the loop of the function named body, p its probability
LoopBody(body, ch, p, st) ==
    CASE body = "case_shuffle" -> CaseShuffleCh(ch, p, st)
      [] body = "insert_ws_noise" -> InsertWsCh(ch, p, st)
      [] body = "repl_keyword" -> ReplKeywordCh(ch, st)
      [] body = "html_entity_mangle" -> HtmlEntityCh(ch, p, st)
      [] body = "url_mangle" -> UrlMangleCh(ch, p, st)
      [] body = "zero_width_sprinkle" -> ZeroWidthCh(ch, p, st)

RECURSIVE ForEachCh(_, _, _, _, _, _)
\* "for ch in s: body" over s[lo..hi], in order, from the loop state st: the
\* passes over the first half, then those over the second half from the state
\* the first half left
ForEachCh(body, s, p, lo, hi, st) ==
    IF lo > hi THEN st
    ELSE IF lo = hi THEN LoopBody(body, s[lo], p, st)
    ELSE LET mid == (lo + hi) \div 2
         IN  CHOOSE y \in {ForEachCh(body, s, p, mid + 1, hi, x) :
                             x \in {ForEachCh(body, s, p, lo, mid, st)}} : TRUE

\* out = []; for ch in s: body; return "".join(out)
JoinLoop(body, s, p, r) == ForEachCh(body, s, p, 1, Len(s), [s |-> <<>>, r |-> r])

\* case_shuffle(s, prob), prob in percent
case_shuffle(s, prob, r) == JoinLoop("case_shuffle", s, prob, r)

\* insert_ws_noise(s, density), density in percent
insert_ws_noise(s, density, r) == JoinLoop("insert_ws_noise", s, density, r)

\* insert_comment_noise's repl_keyword(m), word being m.group(0)
repl_keyword(word, r) == JoinLoop("repl_keyword", word, 35, r)

\* split_keywords' breaker(m), w being m.group(0)
breaker(w, r) ==
    LET c == _rand(JS_COMMENTS \o HTML_COMMENTS, r)
        lw == Lower(w)
    IN  [s |-> IF lw = <<"s", "c", "r", "i", "p", "t">> THEN <<"s", "c", "r">> \o c.s \o <<"i", "p", "t">>
               ELSE IF lw = <<"o", "n", "e", "r", "r", "o", "r">> THEN <<"o", "n">> \o c.s \o <<"e", "r", "r", "o", "r">>
               ELSE IF lw = <<"o", "n", "l", "o", "a", "d">> THEN <<"o", "n">> \o c.s \o <<"l", "o", "a", "d">>
               ELSE SubSeq(w, 1, 2) \o c.s \o Drop(w, 3),
         r |-> c.r]

RECURSIVE ReSub(_, _, _, _)
\* re.sub(kw, repl, s, flags=re.IGNORECASE) for a literal kw: the leftmost
\* non-overlapping matches, left to right; repl is repl_keyword or breaker
ReSub(kw, repl, s, r) ==
    LET i == Find(Lower(s), kw)
    IN  IF i = 0 THEN [s |-> s, r |-> r]
        ELSE LET w == SubSeq(s, i, i + Len(kw) - 1)
                 rep == IF repl = "repl_keyword" THEN repl_keyword(w, r) ELSE breaker(w, r)
                 rest == ReSub(kw, repl, Drop(s, i + Len(kw)), rep.r)
             IN  [s |-> SubSeq(s, 1, i - 1) \o rep.s \o rest.s, r |-> rest.r]

RECURSIVE ReSubKeywords(_, _, _, _)
\* for kw in KEYWORDS[k:]: s = re.sub(kw, repl, s, flags=re.IGNORECASE)
ReSubKeywords(repl, k, s, r) ==
    IF k > Len(KEYWORDS) THEN [s |-> s, r |-> r]
    ELSE CHOOSE y \in {ReSubKeywords(repl, k + 1, x.s, x.r) :
                        x \in {ReSub(KEYWORDS[k], repl, s, r)}} : TRUE

\* insert_comment_noise's "general token spacing", x being s and the generator
\* after the keyword loop
TokenSpacing(x, density) ==
    LET r1 == RngNext(x.r)
        js == _rand(JS_COMMENTS, r1)
        html == _rand(HTML_COMMENTS, js.r)
    IN  IF Chance(r1, density)
        THEN [s |-> Replace(x.s, <<"=">>, js.s \o <<"=">> \o html.s), r |-> html.r]
        ELSE [s |-> x.s, r |-> r1]

\* insert_comment_noise(s, density), density in percent
insert_comment_noise(s, density, r) ==
    TokenSpacing(ReSubKeywords("repl_keyword", 1, s, r), density)

\* html_entity_mangle(s, ratio), ratio in percent
html_entity_mangle(s, ratio, r) == JoinLoop("html_entity_mangle", s, ratio, r)

\* url_mangle(s, ratio), ratio in percent
url_mangle(s, ratio, r) == JoinLoop("url_mangle", s, ratio, r)

\* zero_width_sprinkle(s, ratio), ratio in percent
zero_width_sprinkle(s, ratio, r) == JoinLoop("zero_width_sprinkle", s, ratio, r)

\* split_keywords(s)
split_keywords(s, r) == ReSubKeywords("breaker", 1, s, r)

\* wrap_in_settimeout(title_expr)
wrap_in_settimeout(title_expr) ==
    <<"s", "e", "t", "T", "i", "m", "e", "o", "u", "t", "(", "f", "u", "n", "c", "t", "i", "o", "n", "(", ")", "{">> \o title_expr \o <<"}", ",", "1", ")">>

\* function_constructor(title_expr)
function_constructor(title_expr) ==
    <<"F", "u", "n", "c", "t", "i", "o", "n", "(", "'">> \o Replace(title_expr, <<"'">>, <<"\\", "'">>) \o <<"'", ")", "(", ")">>

RECURSIVE Shuffle(_, _, _)
\* random.shuffle(x): for i in reversed(range(1, len(x))): j = randbelow(i + 1);
\* x[i], x[j] = x[j], x[i].  Here i counts from 1.
Shuffle(x, i, r) ==
    IF i < 2 THEN [s |-> x, r |-> r]
    ELSE LET r1 == RngNext(r)
             j == RandBelow(r1, i) + 1
         IN  Shuffle([x EXCEPT ![i] = x[j], ![j] = x[i]], i - 1, r1)

\* the list funcs of compose_evasions, by position
EvasionFunc(f, s, r) ==
    CASE f = 1 -> case_shuffle(s, 60, r)
      [] f = 2 -> insert_ws_noise(s, 12, r)
      [] f = 3 -> insert_comment_noise(s, 15, r)
      [] f = 4 -> html_entity_mangle(s, 30, r)
      [] f = 5 -> url_mangle(s, 25, r)
      [] f = 6 -> zero_width_sprinkle(s, 15, r)
      [] f = 7 -> split_keywords(s, r)

RECURSIVE ApplyFuncs(_, _, _, _, _)
\* for f in funcs[:n]: variants = [f(v) for v in variants]
ApplyFuncs(funcs, k, n, s, r) ==
    IF k > n THEN [s |-> s, r |-> r]
    ELSE CHOOSE y \in {ApplyFuncs(funcs, k + 1, n, x.s, x.r) :
                        x \in {EvasionFunc(funcs[k], s, r)}} : TRUE

\* for f in funcs[:random.randint(3, len(funcs))]: ..., sh being funcs and
\* the generator after random.shuffle(funcs)
ApplyChosen(sh, s) ==
    LET r1 == RngNext(sh.r)
    IN  ApplyFuncs(sh.s, 1, 3 + RandBelow(r1, 5), s, r1)

\* "Optionally wrap {JSCMD}", v being variants[0] and the generator; the
\* draw is made only when v holds the placeholder
WrapJsCmd(v, title_expr) ==
    LET r2 == RngNext(v.r)
        w == _rand(<<wrap_in_settimeout(title_expr), function_constructor(title_expr)>>, r2)
    IN  IF ~Contains(v.s, PhJsCmd) THEN [s |-> v.s, r |-> v.r]
        ELSE IF Chance(r2, 70) THEN [s |-> Replace(v.s, PhJsCmd, w.s), r |-> w.r]
        ELSE [s |-> v.s, r |-> r2]

\* compose_evasions(s, title_expr): variants holds one string throughout, and
\* variants[0] is returned
compose_evasions(s, title_expr, r) ==
    WrapJsCmd(ApplyChosen(Shuffle(<<1, 2, 3, 4, 5, 6, 7>>, 7, r), s), title_expr)

----------------------------------------------------------------------------
(* payloads/mutator.py                                                      *)

BASE_TEMPLATES ==
    <<<<"\"", ">", "<", "i", "m", "g", " ", "s", "r", "c", "=", "x", " ", "o", "n", "e", "r", "r", "o", "r", "=", "\"", "{", "J", "S", "C", "M", "D", "}", "\"", ">">>,
      <<"'", ">", "<", "s", "v", "g", " ", "o", "n", "l", "o", "a", "d", "=", "'", "{", "J", "S", "C", "M", "D", "}", "'", ">">>,
      <<"<", "s", "v", "g", ">", "<", "s", "c", "r", "i", "p", "t", ">", "{", "J", "S", "C", "M", "D", "}", "<", "/", "s", "c", "r", "i", "p", "t", ">", "<", "/", "s", "v", "g", ">">>,
      <<"\"", ";", "{", "J", "S", "C", "M", "D", "}", "/", "/">>,
      <<"'", ";", "{", "J", "S", "C", "M", "D", "}", "/", "/">>,
      <<"j", "a", "v", "a", "s", "c", "r", "i", "p", "t", ":", "{", "J", "S", "C", "M", "D", "}">>,
      <<"{", "M", "A", "R", "K", "E", "R", "}">>>>

JSCMD_FMT == <<"d", "o", "c", "u", "m", "e", "n", "t", ".", "t", "i", "t", "l", "e", "=", "'", "x", "s", "s", ":", "'", "+", "{", "M", "A", "R", "K", "E", "R", "!", "r", "}">>

PhMarker == <<"{", "M", "A", "R", "K", "E", "R", "}">>

PhMarkerRepr == <<"{", "M", "A", "R", "K", "E", "R", "!", "r", "}">>

TagScript == <<"<", "s", "c", "r", "i", "p", "t", ">">>

WordSrcdoc == <<"s", "r", "c", "d", "o", "c">>

RECURSIVE DedupFrom(_, _, _)
DedupFrom(xs, i, out) ==
    IF i > Len(xs) THEN out
    ELSE DedupFrom(xs, i + 1, IF InSeq(xs[i], out) THEN out ELSE Append(out, xs[i]))

\* the "seen = set(); uniq = []" loop: de-dup preserving order
Dedup(xs) == DedupFrom(xs, 1, <<>>)

\* the lines _load_external keeps of one path: none for an empty path or a
\* file that cannot be read, else the stripped lines that are neither empty
\* nor comments.  A path is [readable |-> BOOLEAN, lines |-> the file's lines].
FileLines(p) ==
    IF ~p.readable THEN <<>>
    ELSE SelectSeq([i \in 1..Len(p.lines) |-> Strip(p.lines[i])],
                   LAMBDA l : l # <<>> /\ ~StartsWith(l, <<"#">>))

RECURSIVE LoadAll(_, _)
LoadAll(paths, i) ==
    IF i > Len(paths) THEN <<>> ELSE FileLines(paths[i]) \o LoadAll(paths, i + 1)

\* _load_external(paths)
_load_external(paths) == Dedup(LoadAll(paths, 1))

\* pat in str(csp).lower().  str(csp) is the dict's repr: the key names and
\* the booleans hold none of the three patterns searched for, and the tokens
\* of script_src are pieces of raw, so the test is one on raw (a header with
\* no double quote and no backslash, which repr would escape).
StrCspContains(csp, pat) == Contains(Lower(csp.raw), pat)

\* the mutant of the filter's result: no fall-back to the unfiltered list
FilterResultNoFallback(filtered, templates) == filtered

\* return filtered or templates
FilterResult(filtered, templates) == IF filtered = <<>> THEN templates ELSE filtered

\* what _csp_filter returns, f being the loop's result
FilterReturn(f, templates) ==
    [out |-> FilterResult(f.out, templates), r |-> f.r, draws |-> f.draws]

RECURSIVE CspFilterFrom(_, _, _, _, _, _)
\* the loop of _csp_filter over templates[i:], a being the three allows_*
\* locals.  draws logs, per "<script>" template met with inline blocked, the
\* template and whether random.random() < 0.25 held.  Line 81, "continue if
\* False else None", is the no-op its comment says: the template goes on to
\* the tests below and to the final append.
CspFilterFrom(templates, a, i, r, filtered, draws) ==
    IF i > Len(templates) THEN [out |-> filtered, r |-> r, draws |-> draws]
    ELSE LET t == templates[i]
             inline == Contains(t, TagScript) /\ ~a.inline
             r1 == IF inline THEN RngNext(r) ELSE r
             kept == inline /\ Chance(r1, 25)
             f1 == IF kept THEN Append(filtered, t) ELSE filtered
             d1 == IF inline THEN Append(draws, [t |-> t, kept |-> kept]) ELSE draws
             skip == \/ Contains(t, WordSrcdoc) /\ ~(a.inline \/ a.data)
                     \/ Contains(t, KwData) /\ ~a.data
                     \/ Contains(t, KwBlob) /\ ~a.blob
         IN  CspFilterFrom(templates, a, i + 1, r1,
                           IF skip THEN f1 ELSE Append(f1, t), d1)

\* _csp_filter(templates, csp), csp an Optional record
_csp_filter(templates, csp, r) ==
    IF ~csp.some THEN [out |-> templates, r |-> r, draws |-> <<>>]
    ELSE LET a == [inline |-> csp.val.allows_inline \/ StrCspContains(csp.val, KwUnsafeInline),
                   data |-> StrCspContains(csp.val, KwData),
                   blob |-> StrCspContains(csp.val, KwBlob)]
         IN  FilterReturn(CspFilterFrom(templates, a, 1, r, <<>>, <<>>), templates)

\* repr(marker) for a marker without quotes or backslashes
Repr(marker) == <<"'">> \o marker \o <<"'">>

\* the expression {JSCMD} stands for
JsCmd(marker) == Replace(JSCMD_FMT, PhMarkerRepr, Repr(marker))

\* filled = tpl.replace("{MARKER}", marker).replace("{JSCMD}", ...)
Fill(tpl, marker) == Replace(Replace(tpl, PhMarker, marker), PhJsCmd, JsCmd(marker))

\* the list holding the one string v.s
SingleVariant(v) == [variants |-> <<v.s>>, r |-> v.r]

\* ev_apply(filled): mutator.py imports evasions.apply_all, which evasions.py
\* does not define; the pipeline evasions.py provides is compose_evasions, and
\* the list extended into payloads holds what it returns
ev_apply(filled, marker, r) == SingleVariant(compose_evasions(filled, JsCmd(marker), r))

\* the mutant of the seeding: the seed argument is ignored
SeedIgnored(seed, r) == r

\* if seed is not None: random.seed(seed)
SeedIfGiven(seed, r) == IF seed.some THEN RngSeed(seed.val) ELSE r

\* templates = ext if mode == "replace" and ext else BASE_TEMPLATES + ext
SelectTemplates(mode, ext) ==
    IF mode = "replace" /\ ext # <<>> THEN ext ELSE BASE_TEMPLATES \o ext

RECURSIVE DedupCapFrom(_, _, _, _)
\* the "Stable de-dup and cap" loop of build_payloads
DedupCapFrom(payloads, max_payloads, i, final) ==
    IF i > Len(payloads) THEN final
    ELSE LET f == IF InSeq(payloads[i], final) THEN final ELSE Append(final, payloads[i])
         IN  IF 0 < max_payloads /\ max_payloads <= Len(f) THEN f
             ELSE DedupCapFrom(payloads, max_payloads, i + 1, f)

DedupCap(payloads, max_payloads) == DedupCapFrom(payloads, max_payloads, 1, <<>>)

----------------------------------------------------------------------------
(* reports/scoring.py.  A finding is a record [executed, reflected, sinks,  *)
(* screenshot, trace, status]: executed, reflected, screenshot and trace    *)
(* are the truth values of the dict's entries, sinks is the sequence of     *)
(* the sink entries' names (each an Optional string) and status is Some     *)
(* integer, or None for a status that is missing or not an int.             *)

\* SINK_WEIGHTS, in the order of the dict
SINK_WEIGHTS ==
    <<[key |-> <<"d", "o", "c", "u", "m", "e", "n", "t", ".", "w", "r", "i", "t", "e">>, w |-> 25],
      [key |-> <<"d", "o", "c", "u", "m", "e", "n", "t", ".", "w", "r", "i", "t", "e", "l", "n">>, w |-> 20],
      [key |-> <<"i", "n", "n", "e", "r", "H", "T", "M", "L">>, w |-> 22],
      [key |-> <<"i", "n", "s", "e", "r", "t", "A", "d", "j", "a", "c", "e", "n", "t", "H", "T", "M", "L">>, w |-> 22],
      [key |-> <<"s", "e", "t", "A", "t", "t", "r", "i", "b", "u", "t", "e">>, w |-> 18],
      [key |-> <<"l", "o", "c", "a", "t", "i", "o", "n", ".", "a", "s", "s", "i", "g", "n">>, w |-> 12],
      [key |-> <<"l", "o", "c", "a", "t", "i", "o", "n", ".", "r", "e", "p", "l", "a", "c", "e">>, w |-> 12],
      [key |-> <<"h", "i", "s", "t", "o", "r", "y", ".", "p", "u", "s", "h", "S", "t", "a", "t", "e">>, w |-> 8],
      [key |-> <<"h", "i", "s", "t", "o", "r", "y", ".", "r", "e", "p", "l", "a", "c", "e", "S", "t", "a", "t", "e">>, w |-> 8]>>

\* the mutant of the primary signals: the two bonuses exchanged
PrimarySignalSwapped(hit) ==
    IF hit.executed THEN 30 ELSE IF hit.reflected THEN 80 ELSE 0

\* lines 25-28: the primary signals
PrimarySignal(hit) ==
    IF hit.executed THEN 80 ELSE IF hit.reflected THEN 30 ELSE 0

\* names = [(s.get('name') or '') for s in sinks]
SinkNames(sinks) ==
    [i \in 1..Len(sinks) |-> IF sinks[i].some THEN sinks[i].val ELSE <<>>]

RECURSIVE NameWeight(_, _)
\* for key, w in SINK_WEIGHTS.items(): if nm.startswith(key): score += w,
\* over the keys from the k-th on
NameWeight(nm, k) ==
    IF k > Len(SINK_WEIGHTS) THEN 0
    ELSE (IF StartsWith(nm, SINK_WEIGHTS[k].key) THEN SINK_WEIGHTS[k].w ELSE 0)
         + NameWeight(nm, k + 1)

RECURSIVE SinksScore(_, _)
\* for nm in names: ..., over the names from the i-th on
SinksScore(names, i) ==
    IF i > Len(names) THEN 0 ELSE NameWeight(names[i], 1) + SinksScore(names, i + 1)

\* lines 39-42: evidence
EvidenceScore(hit) ==
    (IF hit.screenshot THEN 5 ELSE 0) + (IF hit.trace THEN 5 ELSE 0)

\* lines 45-52: HTTP status confidence
StatusScore(status) ==
    IF ~status.some THEN 0
    ELSE IF 200 <= status.val /\ status.val < 300 THEN 5
    ELSE IF 400 <= status.val /\ status.val < 500 THEN 0 - 10
    ELSE IF 500 <= status.val /\ status.val < 600 THEN 0 - 5
    ELSE 0

\* the mutant of the clamp: min(100, score), the lower bound left out
ClampUpperOnly(score) == IF score > 100 THEN 100 ELSE score

\* max(0, min(100, score))
Clamp(score) == IF score < 0 THEN 0 ELSE IF score > 100 THEN 100 ELSE score

\* the mutant of the bands: every threshold compared with > instead of >=
SeverityBandStrict(score) ==
    IF score > 90 THEN "Critical"
    ELSE IF score > 70 THEN "High"
    ELSE IF score > 40 THEN "Medium"
    ELSE IF score > 15 THEN "Low"
    ELSE "Info"

\* lines 58-67: severity bands
SeverityBand(score) ==
    IF score >= 90 THEN "Critical"
    ELSE IF score >= 70 THEN "High"
    ELSE IF score >= 40 THEN "Medium"
    ELSE IF score >= 15 THEN "Low"
    ELSE "Info"

\* the fields score_hit adds for a clamped score
Scored(score) == [score |-> score, severity |-> SeverityBand(score)]

\* score_hit(hit): the 'score' and 'severity' fields it sets
score_hit(hit) ==
    Scored(Clamp(PrimarySignal(hit) + SinksScore(SinkNames(hit.sinks), 1)
                 + EvidenceScore(hit) + StatusScore(hit.status)))

----------------------------------------------------------------------------
(* reports/scoring.py: summarize.  A scored finding is a finding together   *)
(* with the mode, score and severity entries of its dict.                   *)

\* sorted_hits[:5]
TopN == 5

\* the mutant of the key: the score alone, no tie-break
KeyBelowByScore(a, b) == a.score < b.score

\* line 91: key(a) < key(b) for the key (score, executed, len(sinks)),
\* tuples compared entry by entry and False below True
KeyBelow(a, b) ==
    \/ a.score < b.score
    \/ a.score = b.score /\ ~a.executed /\ b.executed
    \/ a.score = b.score /\ a.executed = b.executed /\ Len(a.sinks) < Len(b.sinks)

RECURSIVE InsertDesc(_, _, _)
\* f put into the list s, sorted in descending order, at or behind position
\* i: behind every entry whose key is not below its own, which is where a
\* stable sort leaves the later of two findings with equal keys
InsertDesc(s, f, i) ==
    IF i > Len(s) \/ KeyBelow(s[i], f)
    THEN SubSeq(s, 1, i - 1) \o <<f>> \o SubSeq(s, i, Len(s))
    ELSE InsertDesc(s, f, i + 1)

RECURSIVE SortedDesc(_, _)
\* sorted(findings, key=..., reverse=True), of the first n findings
SortedDesc(fs, n) ==
    IF n = 0 THEN <<>>
    ELSE CHOOSE y \in {InsertDesc(x, fs[n], 1) : x \in {SortedDesc(fs, n - 1)}} : TRUE

\* lines 77-105: the dict summarize returns, for the findings fs and their
\* sorted order; a top finding is the projection of lines 92-103
summarize(fs, sorted) ==
    [counts_by_severity |->
        [sev \in {"Critical", "High", "Medium", "Low", "Info"} |->
            Cardinality({i \in 1..Len(fs) : fs[i].severity = sev})],
     counts_by_mode |->
        [md \in {fs[i].mode : i \in 1..Len(fs)} |->
            Cardinality({i \in 1..Len(fs) : fs[i].mode = md})],
     top_findings |->
        [i \in 1..(IF Len(sorted) < TopN THEN Len(sorted) ELSE TopN) |->
            [mode |-> sorted[i].mode, severity |-> sorted[i].severity,
             score |-> sorted[i].score, executed |-> sorted[i].executed,
             reflected |-> sorted[i].reflected, trace |-> sorted[i].trace,
             screenshot |-> sorted[i].screenshot]],
     total_findings |-> Len(fs)]

----------------------------------------------------------------------------
(* crawler/browser_engine.py: the detector and the two fuzzing loops.  The  *)
(* browser is the environment: a call into it returns one of the values it  *)
(* can return, or raises.                                                   *)

\* backoff_ms: int = 500
BackoffMs == 500

\* detector/sandbox_executor.py lines 93-99: page.wait_for_function returns,
\* or raises (a timeout included), and every exception is turned into False
wait_for_execution_signal(outcome) == outcome = "signalled"

\* the mutant of the detector: the snapshot is looked at only when the
\* execution check gave False
CheckSignalsElif(outcome, snapshot, mk) ==
    [executed |-> wait_for_execution_signal(outcome),
     reflected |-> /\ ~wait_for_execution_signal(outcome)
                   /\ snapshot.some
                   /\ Contains(snapshot.val, mk)]

\* lines 239-251: _check_signals, for the way the wait ended and for what
\* page.content() gave (None when it raised)
CheckSignals(outcome, snapshot, mk) ==
    [executed |-> wait_for_execution_signal(outcome),
     reflected |-> snapshot.some /\ Contains(snapshot.val, mk)]

\* lines 345-353, 424-433 and 451-459: the dict of an attempt that ran to
\* its end.  A dict entry that is not there is None.
SignalRecord(md, pt, pl, signals) ==
    [mode |-> md, point |-> pt, payload |-> pl,
     executed |-> Some(signals.executed), reflected |-> Some(signals.reflected),
     error |-> FALSE]

\* lines 361-370 and 467-476: the dict of an attempt that raised
ErrorRecord(md, pt, pl) ==
    [mode |-> md, point |-> pt, payload |-> pl,
     executed |-> None, reflected |-> None, error |-> TRUE]

----------------------------------------------------------------------------
(* crawler/browser_engine.py: what an attempt of the fuzzing loops is made  *)
(* with: the user agent, the query of the URL, the tag of its evidence.  A  *)
(* query is the sequence of its (key, value) pairs as parse_qsl gives them. *)

\* lines 134-138: _maybe_rotate_ua, by how many rotations it makes
_maybe_rotate_ua(mode) == IF mode = "per-request" THEN 1 ELSE 0

\* lines 125-132: _paced_sleep, by what it can sleep, in ms: nothing without
\* a base; else the base moved by a uniform draw of at most base * jitter
\* either way, of which the two ends and the middle are drawn here, and
\* nothing when the delay is not above 0
_paced_sleep(base, pct) ==
    IF base = 0
    THEN {<<>>}
    ELSE {IF delay > 0 THEN <<delay>> ELSE <<>> :
            delay \in {base - (base * pct) \div 100, base,
                       base + (base * pct) \div 100}}

\* line 394
Synthetic == <<"q", "query", "search", "id", "name", "title">>

\* whether the key k is the key of one of the pairs
HasKey(pairs, k) == \E i \in 1..Len(pairs) : pairs[i].k = k

\* lines 393-399: the parameter names fuzz_url_params runs over: the keys of
\* the query as they come, then the synthetic names that are not among
\* them, cut to max_params
ParamCandidates(pairs, max) ==
    LET keys == [i \in 1..Len(pairs) |-> pairs[i].k]
        more == SelectSeq(Synthetic, LAMBDA s : ~HasKey(pairs, s))
        all == keys \o more
    IN  SubSeq(all, 1, IF max > 0 /\ max < Len(all) THEN max ELSE Len(all))

\* d[k] = v on a Python dict, kept as the sequence of its items: the value
\* of a key that is there is replaced where it stands, a new key goes last
DictSet(d, k, v) ==
    IF HasKey(d, k)
    THEN [i \in 1..Len(d) |-> IF d[i].k = k THEN [k |-> k, v |-> v] ELSE d[i]]
    ELSE Append(d, [k |-> k, v |-> v])

\* dict(pairs): the pairs are set one after the other
RECURSIVE DictOf(_)
DictOf(pairs) ==
    IF pairs = <<>>
    THEN <<>>
    ELSE DictSet(DictOf(SubSeq(pairs, 1, Len(pairs) - 1)),
                 pairs[Len(pairs)].k, pairs[Len(pairs)].v)

\* lines 408-410: qdict = dict(orig_params); qdict[pname] = p;
\* urlencode(qdict, doseq=True) writes the items of qdict in their order
BuildQuery(pairs, pname, p) == DictSet(DictOf(pairs), pname, p)

\* line 439: the condition of the fragment fallback, and its mutant, which
\* looks at executed only
FragmentUnlessExecuted(signals) == ~signals.executed

FragmentNeeded(signals) == ~signals.executed /\ ~signals.reflected

\* lines 355, 434 and 460: the tag _record_evidence names its files by; nm
\* is the field or parameter name and h is abs(hash(p)) % 10**8.  The model
\* has one form, whose index is 0.
Tag(md, nm, h) ==
    IF md = "form" THEN <<"form", 0, nm, h>>
    ELSE IF md = "url_param" THEN <<"param", nm, h>>
    ELSE <<"fragment", nm, h>>

----------------------------------------------------------------------------
(* detector/sandbox_executor.py: the scripts registered on the page, and    *)
(* what the detector reads from the page.  The page is the environment: it  *)
(* shows the payload or not, runs it or not, calls the hooked primitives,   *)
(* and may bind global names of its own.                                    *)

\* line 73: the title markHit writes
HitTitle(mk) == <<"x", "s", "s", "e", "n", "t", "i", "n", "e", "l", "-", "h", "i", "t", "-">> \o mk

\* payloads/mutator.py line 36: the title the {JSCMD} expression writes
\* when it runs
JsCmdTitle(mk) == <<"x", "s", "s", ":">> \o mk

\* line 78: document.documentElement.innerHTML of a document with the title
\* ttl; the payload, shown as text or put in as markup, carries the marker
InnerHtml(ttl, shown, mk) ==
    <<"<", "h", "e", "a", "d", ">", "<", "t", "i", "t", "l", "e", ">">> \o ttl \o <<"<", "/", "t", "i", "t", "l", "e", ">", "<", "/", "h", "e", "a", "d", ">", "<", "b", "o", "d", "y", ">">>
      \o (IF shown THEN mk ELSE <<>>) \o <<"<", "/", "b", "o", "d", "y", ">">>

\* lines 93-99: how page.wait_for_function ends on the expression
\* document.title.includes('xssentinel-hit-' + marker).  No arg is passed,
\* so marker is the page's global of that name: unbound, the expression
\* raises; bound to a string, it is true or the wait runs out.
WaitEnd(ttl, bound) ==
    IF ~bound.some THEN "not_signalled"
    ELSE IF Contains(ttl, HitTitle(bound.val)) THEN "signalled"
    ELSE "timed_out"

\* lines 9-22: one call of a hooked primitive in a document the hooks
\* script ran in `layers` times: every run wrapped the function it found,
\* so every layer logs the call before it reaches the original
LoggedBy(nm, layers) == [i \in 1..layers |-> nm]

----------------------------------------------------------------------------
(* The state of the model                                                   *)

VARIABLES
    pc,             \* the component the run is in and its position
    \* utils/csp.py
    header_value,   \* parse_csp's argument: an Optional string
    n_chunks,       \* how many pieces header_value was put together from
    info,           \* parse_csp's result, None before the call
    \* payloads/mutator.py: build_payloads' arguments
    csp,            \* Optional capability record
    marker,
    external_paths, \* sequence of [readable, lines]
    mode,
    max_payloads,   \* None until the de-dup loop reads it
    seed,           \* Optional integer
    \* the random module's process-wide generator state
    rng,
    \* build_payloads' locals
    templates,      \* after _csp_filter
    inline_draws,   \* _csp_filter: the retention draws made, in order
    tpl_i,          \* position of the "for tpl in templates" loop
    filled,
    variants,
    payloads,
    final,          \* the returned list, None before the return
    prev_final,     \* what the previous call with these arguments returned
    \* cli/main.py
    args_max_payloads,
    handed,         \* the payload list passed to fuzz_forms / fuzz_url_params
    \* reports/scoring.py
    hit,            \* the finding
    hit_scored,     \* the score and severity score_hit last gave it
    prev_hit,       \* the finding as it was when scored before
    prev_scored,    \* the score and severity it had then
    \* reports/scoring.py: summarize
    findings,       \* summarize's argument: scored findings
    sorted_hits,    \* its local, the findings in sorted order
    out,            \* the summary it returns, None before the call
    \* crawler/browser_engine.py: fuzz_forms and fuzz_url_params
    points,         \* how many injection points the loop runs over
    point_i,        \* position of the outer loop (field name or parameter)
    payload_i,      \* position of the "for p in payloads" loop
    results,        \* the list of findings the phase returns
    wait_outcome,   \* how the wait for the execution signal ended
    dom,            \* page.content(): Optional string, None when it raised
    executed,       \* _check_signals' result
    reflected,
    resp_status,    \* status of the response page.goto last returned
    gotos,          \* page.goto calls made in the attempt under way
    slept,          \* what the attempt under way has slept, in ms
    raised_in,      \* the (point, payload) pairs an exception was raised in
    faults,         \* how many exceptions the browser has raised
    hits,           \* how many navigations made the page run or show the marker
    fragment_tried, \* whether the attempt under way made the fragment fallback
    ua_mode,        \* self.ua_mode: "session" or "per-request"
    rotations,      \* user-agent rotations made in the attempt under way
    orig_params,    \* the (key, value) pairs of base_url's query, in order
    point_names,    \* the field names or parameter names the outer loop runs over
    new_query,      \* the pairs of the query the attempt under way navigated to
    hashes,         \* abs(hash(p)) % 10**8 of each payload, in this process
    pacing_ms,      \* self.pacing_ms
    jitter_pct,     \* self.jitter_pct, in hundredths
    \* cli/main.py: run
    fuzz_url,       \* args.fuzz_url
    run_results,    \* results: every finding collected so far
    report,         \* what reporter.save_json was given, None before
    \* crawler/browser_engine.py: the session's resources
    trace_on_hit,
    user_agent,     \* whether a user agent was given
    _pw,            \* "none", "open" or "closed"
    browser,
    context,
    tracing,        \* whether trace collection is running
    releases,       \* how many times each resource has been released
    exit_path,      \* how the run left the session: the steps that raised
    \* detector/sandbox_executor.py: the page the attempts run in
    page_marker,    \* what the name marker is bound to in the page, None when unbound
    init_scripts,   \* how many times inject_init_script has registered its scripts
    hook_layers,    \* how many times the scripts ran in the document at hand
    doc_payload,    \* what the document does with the payload
    script_ran,     \* whether the payload's script ran in the document
    title,          \* document.title
    hit_marked,     \* whether window.__xssentinel_hits holds the marker
    mutations,      \* whether a MutationObserver callback is due
    sink_log,       \* window.__xssentinel_sinks: the names logged, in order
    original_calls, \* the calls the original sink primitives have received
    page_wait,      \* how the attempt's wait for the execution signal ended
    page_hit,       \* the finding of the attempt, None before the detector ran
    prev_sinks      \* the sink entries the attempt before recorded on this document

cspVars == <<header_value, n_chunks, info>>

buildArgs == <<csp, marker, external_paths, mode, seed>>

buildVars ==
    <<csp, marker, external_paths, mode, max_payloads, seed, rng, templates,
      inline_draws, tpl_i, filled, variants, payloads, final, prev_final,
      args_max_payloads, handed>>

scoreVars == <<hit, hit_scored, prev_hit, prev_scored>>

summaryVars == <<findings, sorted_hits, out>>

fuzzVars ==
    <<points, point_i, payload_i, results, wait_outcome, dom, executed,
      reflected, resp_status, gotos, slept, raised_in, faults, hits,
      fragment_tried, ua_mode, rotations, orig_params, point_names, new_query,
      hashes, pacing_ms, jitter_pct>>

runVars == <<fuzz_url, run_results, report>>

sessionVars == <<trace_on_hit, user_agent, _pw, browser, context, tracing, releases, exit_path>>

pageVars ==
    <<page_marker, init_scripts, hook_layers, doc_payload, script_ran, title,
      hit_marked, mutations, sink_log, original_calls, page_wait, page_hit,
      prev_sinks>>

earlierVars == <<cspVars, buildVars, scoreVars>>

laterVars == <<summaryVars, fuzzVars, runVars, sessionVars, pageVars>>

vars == <<pc, earlierVars, laterVars>>

\* the variables of a component the specification at hand does not run
CspIdle ==
    /\ header_value = None
    /\ n_chunks = 0
    /\ info = None

BuildIdle ==
    /\ csp = None
    /\ marker = <<>>
    /\ external_paths = <<>>
    /\ mode = "extend"
    /\ max_payloads = None
    /\ seed = None
    /\ rng = 0
    /\ templates = <<>>
    /\ inline_draws = <<>>
    /\ tpl_i = 0
    /\ filled = <<>>
    /\ variants = <<>>
    /\ payloads = <<>>
    /\ final = None
    /\ prev_final = None
    /\ args_max_payloads = 0
    /\ handed = None

ScoreIdle ==
    /\ hit = None
    /\ hit_scored = None
    /\ prev_hit = None
    /\ prev_scored = None

SummaryIdle ==
    /\ findings = <<>>
    /\ sorted_hits = <<>>
    /\ out = None

FuzzIdle ==
    /\ points = 0
    /\ point_i = 0
    /\ payload_i = 0
    /\ results = <<>>
    /\ wait_outcome = "none"
    /\ dom = None
    /\ executed = FALSE
    /\ reflected = FALSE
    /\ resp_status = None
    /\ gotos = 0
    /\ slept = <<>>
    /\ raised_in = {}
    /\ faults = 0
    /\ hits = 0
    /\ fragment_tried = FALSE
    /\ ua_mode = "session"
    /\ rotations = 0
    /\ orig_params = <<>>
    /\ point_names = <<>>
    /\ new_query = <<>>
    /\ hashes = <<>>
    /\ pacing_ms = 0
    /\ jitter_pct = 0

RunIdle ==
    /\ fuzz_url = FALSE
    /\ run_results = <<>>
    /\ report = None

SessionIdle ==
    /\ trace_on_hit = FALSE
    /\ user_agent = FALSE
    /\ _pw = "none"
    /\ browser = "none"
    /\ context = "none"
    /\ tracing = FALSE
    /\ releases = <<>>
    /\ exit_path = <<>>

PageIdle ==
    /\ page_marker = None
    /\ init_scripts = 0
    /\ hook_layers = 0
    /\ doc_payload = "none"
    /\ script_ran = FALSE
    /\ title = <<>>
    /\ hit_marked = FALSE
    /\ mutations = FALSE
    /\ sink_log = <<>>
    /\ original_calls = <<>>
    /\ page_wait = "none"
    /\ page_hit = None
    /\ prev_sinks = None

EarlierIdle == CspIdle /\ BuildIdle /\ ScoreIdle

LaterIdle == SummaryIdle /\ FuzzIdle /\ RunIdle /\ SessionIdle /\ PageIdle

----------------------------------------------------------------------------
(* CspSpec: parse_csp applied to every header made of at most MaxChunks     *)
(* pieces, and to the absent header                                         *)

MaxChunks == 4

\* the pieces headers are put together from: directive names (one of
\* them capitalised), source expressions, the two kinds of whitespace and
\* the directive separator
HeaderChunks ==
    {KwScriptSrc, KwDefaultSrc, KwUnsafeInline, KwUnsafeEval, KwData, KwBlob,
     <<"S", "c", "r", "i", "p", "t", "-", "S", "r", "c">>,
     <<"i", "m", "g", "-", "s", "r", "c">>,
     <<"'", "s", "e", "l", "f", "'">>, <<" ">>, <<"TAB">>, <<";">>}

CspInit ==
    /\ pc = "csp_input"
    /\ header_value \in {None, Some(<<>>)}
    /\ n_chunks = 0
    /\ info = None
    /\ BuildIdle
    /\ ScoreIdle
    /\ LaterIdle

\* the environment extends the header the server will send
AppendChunk ==
    /\ pc = "csp_input"
    /\ header_value.some
    /\ n_chunks < MaxChunks
    /\ \E c \in HeaderChunks : header_value' = Some(header_value.val \o c)
    /\ n_chunks' = n_chunks + 1
    /\ UNCHANGED <<pc, info, buildVars, scoreVars, laterVars>>

\* info = parse_csp(header_value)
ParseCsp ==
    /\ pc = "csp_input"
    /\ info' = Some(parse_csp(header_value))
    /\ pc' = "csp_parsed"
    /\ UNCHANGED <<header_value, n_chunks, buildVars, scoreVars, laterVars>>

CspNext == AppendChunk \/ ParseCsp

CspSpec == CspInit /\ [][CspNext]_vars

----------------------------------------------------------------------------
(* BuildSpec: build_payloads called, and called again with the same         *)
(* arguments, and its result capped by cli/main.py                          *)

MaxSeed == 2

MaxCap == 2

\* max_payloads: int = 300
DefaultMaxPayloads == 300

\* = os.urandom(4).hex() or $XSSPROBE_MARKER
Markers == {<<"c", "0", "d", "e">>}

\* the headers BrowserEngine.navigate may have captured; get_csp_info()
\* returns None without one, and main.py passes None unless --csp-aware
BuildHeaders ==
    {<<"d", "e", "f", "a", "u", "l", "t", "-", "s", "r", "c", " ", "'", "s", "e", "l", "f", "'">>,
     <<"d", "e", "f", "a", "u", "l", "t", "-", "s", "r", "c", " ", "'", "s", "e", "l", "f", "'", ";", " ", "i", "m", "g", "-", "s", "r", "c", " ", "d", "a", "t", "a", ":", " ", "b", "l", "o", "b", ":">>,
     <<"s", "c", "r", "i", "p", "t", "-", "s", "r", "c", " ", "'", "u", "n", "s", "a", "f", "e", "-", "i", "n", "l", "i", "n", "e", "'", " ", "b", "l", "o", "b", ":">>,
     <<"s", "c", "r", "i", "p", "t", "-", "s", "r", "c", " ", "'", "s", "e", "l", "f", "'", " ", "d", "a", "t", "a", ":", ";", " ", "s", "t", "y", "l", "e", "-", "s", "r", "c", " ", "'", "u", "n", "s", "a", "f", "e", "-", "i", "n", "l", "i", "n", "e", "'">>}

BuildCsps == {None} \cup {Some(parse_csp(Some(h))) : h \in BuildHeaders}

UnreadableFile == [readable |-> FALSE, lines |-> <<>>]

WordlistA ==
    [readable |-> TRUE,
     lines |-> <<<<"#", " ", "w", "o", "r", "d", "l", "i", "s", "t">>,
                 <<"<", "s", "c", "r", "i", "p", "t", ">", "{", "J", "S", "C", "M", "D", "}", "<", "/", "s", "c", "r", "i", "p", "t", ">">>,
                 <<>>,
                 <<" ", " ", "<", "a", " ", "h", "r", "e", "f", "=", "b", "l", "o", "b", ":", "{", "M", "A", "R", "K", "E", "R", "}", ">", "x", "<", "/", "a", ">", " ">>,
                 <<"{", "M", "A", "R", "K", "E", "R", "}">>>>]

WordlistB ==
    [readable |-> TRUE,
     lines |-> <<<<"<", "i", "f", "r", "a", "m", "e", " ", "s", "r", "c", "=", "d", "a", "t", "a", ":", "t", "e", "x", "t", "/", "h", "t", "m", "l", ",", "{", "M", "A", "R", "K", "E", "R", "}", ">">>,
                 <<"<", "i", "f", "r", "a", "m", "e", " ", "s", "r", "c", "d", "o", "c", "=", "{", "M", "A", "R", "K", "E", "R", "}", ">">>>>]

\* the values of external_paths
WordlistChoices ==
    {<<>>, <<WordlistB>>, <<UnreadableFile, WordlistA>>, <<WordlistA, WordlistB>>}

Seeds == {None} \cup {Some(k) : k \in 1..MaxSeed}

Caps == (0..MaxCap) \cup {DefaultMaxPayloads}

\* the generator's state when the process starts
EntropyStates == {12345}

BuildInit ==
    /\ pc = "build_call"
    /\ CspIdle
    /\ ScoreIdle
    /\ LaterIdle
    /\ csp \in BuildCsps
    /\ marker \in Markers
    /\ external_paths \in WordlistChoices
    /\ mode \in {"extend", "replace"}
    /\ max_payloads = None
    /\ seed \in Seeds
    /\ rng \in EntropyStates
    /\ templates = <<>>
    /\ inline_draws = <<>>
    /\ tpl_i = 0
    /\ filled = <<>>
    /\ variants = <<>>
    /\ payloads = <<>>
    /\ final = None
    /\ prev_final = None
    /\ args_max_payloads = 0
    /\ handed = None

\* build_payloads, lines 108-116: seed, load, select, filter
BuildStart ==
    /\ pc = "build_call"
    /\ \E f \in {_csp_filter(SelectTemplates(mode, _load_external(external_paths)), csp,
                            SeedIfGiven(seed, rng))} :
          /\ templates' = f.out
          /\ inline_draws' = f.draws
          /\ rng' = f.r
    /\ tpl_i' = 1
    /\ payloads' = <<>>
    /\ filled' = <<>>
    /\ variants' = <<>>
    /\ final' = None
    /\ pc' = "build_loop"
    /\ UNCHANGED <<cspVars, scoreVars, laterVars, buildArgs, max_payloads, prev_final, args_max_payloads, handed>>

\* one pass of "for tpl in templates", lines 117-123
BuildExpand ==
    /\ pc = "build_loop"
    /\ tpl_i <= Len(templates)
    /\ \E f \in {Fill(templates[tpl_i], marker)} :
          \E v \in {ev_apply(f, marker, rng)} :
             /\ filled' = f
             /\ variants' = v.variants
             /\ payloads' = payloads \o v.variants
             /\ rng' = v.r
    /\ tpl_i' = tpl_i + 1
    /\ UNCHANGED <<pc, cspVars, scoreVars, laterVars, buildArgs, max_payloads, templates, inline_draws, final,
                   prev_final, args_max_payloads, handed>>

\* lines 125-133: de-dup, cap and return.  max_payloads is first read here,
\* and the first call draws its value here.
BuildFinish ==
    /\ pc = "build_loop"
    /\ tpl_i > Len(templates)
    /\ \E m \in Caps :
          /\ max_payloads.some => m = max_payloads.val
          /\ max_payloads' = Some(m)
          /\ final' = Some(DedupCap(payloads, m))
    /\ pc' = "build_done"
    /\ UNCHANGED <<cspVars, scoreVars, laterVars, buildArgs, rng, templates, inline_draws, tpl_i, filled, variants,
                   payloads, prev_final, args_max_payloads, handed>>

\* a second call with the arguments of the first; the generator is in the
\* state the first call left it in
BuildAgain ==
    /\ pc = "build_done"
    /\ ~prev_final.some
    /\ prev_final' = final
    /\ pc' = "build_call"
    /\ UNCHANGED <<cspVars, scoreVars, laterVars, buildArgs, max_payloads, rng, templates, inline_draws, tpl_i,
                   filled, variants, payloads, final, args_max_payloads, handed>>

RECURSIVE SampleFrom(_, _, _, _, _)
\* random.sample(population, k) for len(population) <= 21: result[i] =
\* pool[j], pool[j] = pool[n - i - 1] with j = randbelow(n - i)
SampleFrom(pool, k, i, r, result) ==
    IF i >= k THEN [s |-> result, r |-> r]
    ELSE LET r1 == RngNext(r)
             n == Len(pool)
             j == RandBelow(r1, n - i) + 1
         IN  SampleFrom([pool EXCEPT ![j] = pool[n - i]], k, i + 1, r1, Append(result, pool[j]))

\* main.py lines 91-93: payloads = sample(payloads, args.max_payloads) when
\* args.max_payloads is not 0 and smaller than len(payloads)
CapPayloads(ps, amp, r) ==
    IF amp # 0 /\ Len(ps) > amp THEN SampleFrom(ps, amp, 0, r, <<>>) ELSE [s |-> ps, r |-> r]

\* main.py lines 89-96: the list the mutator returned is capped and passed to
\* the fuzzing phases.  main.py passes the mutator no max_payloads, so the
\* call it makes is one where the default applies.
HandToFuzz ==
    /\ pc = "build_done"
    /\ max_payloads = Some(DefaultMaxPayloads)
    /\ \E amp \in 0..MaxCap :
          \E c \in {CapPayloads(final.val, amp, rng)} :
             /\ args_max_payloads' = amp
             /\ handed' = Some(c.s)
             /\ rng' = c.r
    /\ pc' = "handed"
    /\ UNCHANGED <<cspVars, scoreVars, laterVars, buildArgs, max_payloads, templates, inline_draws, tpl_i, filled,
                   variants, payloads, final, prev_final>>

BuildNext == BuildStart \/ BuildExpand \/ BuildFinish \/ BuildAgain \/ HandToFuzz

BuildSpec == BuildInit /\ [][BuildNext]_vars

----------------------------------------------------------------------------
(* ScoreSpec: a finding is scored, then gains a sink-log entry or is        *)
(* confirmed as executed, and is scored again                               *)

MaxSinks == 2

\* the name of a sink-log entry: missing, empty, a key of SINK_WEIGHTS, a key
\* that another key is a prefix of, a key followed by more text, a name no
\* key is a prefix of, and a proper prefix of a key
SinkEntryNames ==
    {None, Some(<<>>), Some(<<"i", "n", "n", "e", "r", "H", "T", "M", "L">>), Some(<<"d", "o", "c", "u", "m", "e", "n", "t", ".", "w", "r", "i", "t", "e", "l", "n">>),
     Some(<<"s", "e", "t", "A", "t", "t", "r", "i", "b", "u", "t", "e", ":", "o", "n", "e", "r", "r", "o", "r">>), Some(<<"e", "v", "a", "l">>), Some(<<"d", "o", "c", "u", "m", "e", "n", "t", ".", "w", "r", "i", "t">>)}

\* the statuses a finding carries: none, and one per branch of lines 45-52
Statuses == {None, Some(200), Some(302), Some(404), Some(500)}

Findings ==
    [executed : BOOLEAN, reflected : BOOLEAN, sinks : {<<>>},
     screenshot : BOOLEAN, trace : BOOLEAN, status : Statuses]

ScoreInit ==
    /\ pc = "finding"
    /\ hit \in Findings
    /\ hit_scored = None
    /\ prev_hit = None
    /\ prev_scored = None
    /\ CspIdle
    /\ BuildIdle
    /\ LaterIdle

\* the mutant of the scoring step: the score starts from the score the
\* previous call left behind instead of from 0
ScoreHitAccumulating ==
    /\ pc = "finding"
    /\ hit_scored' =
          Some(Scored(Clamp((IF hit_scored.some THEN hit_scored.val.score ELSE 0)
                            + PrimarySignal(hit)
                            + SinksScore(SinkNames(hit.sinks), 1)
                            + EvidenceScore(hit) + StatusScore(hit.status))))
    /\ pc' = "scored"
    /\ UNCHANGED <<hit, prev_hit, prev_scored, cspVars, buildVars, laterVars>>

\* main.py line 125: score_hit(r)
ScoreHit ==
    /\ pc = "finding"
    /\ hit_scored' = Some(score_hit(hit))
    /\ pc' = "scored"
    /\ UNCHANGED <<hit, prev_hit, prev_scored, cspVars, buildVars, laterVars>>

\* the same finding with one more entry in its sink log
AppendSinkEntry ==
    /\ pc = "scored"
    /\ Len(hit.sinks) < MaxSinks
    /\ \E nm \in SinkEntryNames : hit' = [hit EXCEPT !.sinks = Append(@, nm)]
    /\ prev_hit' = Some(hit)
    /\ prev_scored' = hit_scored
    /\ pc' = "finding"
    /\ UNCHANGED <<hit_scored, cspVars, buildVars, laterVars>>

\* the same finding, reflected-only before, now executed
ConfirmExecuted ==
    /\ pc = "scored"
    /\ ~hit.executed
    /\ hit.reflected
    /\ hit' = [hit EXCEPT !.executed = TRUE]
    /\ prev_hit' = Some(hit)
    /\ prev_scored' = hit_scored
    /\ pc' = "finding"
    /\ UNCHANGED <<hit_scored, cspVars, buildVars, laterVars>>

\* the finding, already scored, is passed to score_hit once more
ScoreAgain ==
    /\ pc = "scored"
    /\ prev_hit # Some(hit)
    /\ prev_hit' = Some(hit)
    /\ prev_scored' = hit_scored
    /\ pc' = "finding"
    /\ UNCHANGED <<hit, hit_scored, cspVars, buildVars, laterVars>>

ScoreNext == ScoreHit \/ AppendSinkEntry \/ ConfirmExecuted \/ ScoreAgain

ScoreSpec == ScoreInit /\ [][ScoreNext]_vars

----------------------------------------------------------------------------
(* SummarySpec: scored findings are collected one by one, and summarize is  *)
(* called on the list                                                       *)

MaxFindings == 6

\* the finding h of the given mode after score_hit
ScoredFinding(h, md) ==
    [mode |-> md, executed |-> h.executed, reflected |-> h.reflected,
     sinks |-> h.sinks, screenshot |-> h.screenshot, trace |-> h.trace,
     score |-> score_hit(h).score, severity |-> score_hit(h).severity]

\* the findings main.py passes on: executed or reflected ones.  Two of them
\* score 80 and differ in executed, two score 30 and differ in the number of
\* sink entries, and one scores between
SummaryFindings ==
    {ScoredFinding([executed |-> x[1], reflected |-> TRUE, sinks |-> x[2],
                    screenshot |-> x[3], trace |-> x[3], status |-> None], x[4]) :
        x \in
            {<<TRUE, <<>>, FALSE, "form">>,
             <<FALSE, <<Some(<<"i", "n", "n", "e", "r", "H", "T", "M", "L">>),
                        Some(<<"s", "e", "t", "A", "t", "t", "r", "i", "b", "u", "t", "e">>)>>,
               TRUE, "url_param">>,
             <<FALSE, <<>>, FALSE, "form">>,
             <<FALSE, <<Some(<<"e", "v", "a", "l">>)>>, FALSE, "url_fragment">>,
             <<FALSE, <<Some(<<"i", "n", "n", "e", "r", "H", "T", "M", "L">>)>>, FALSE,
               "url_param">>}}

SummaryInit ==
    /\ pc = "collect"
    /\ findings = <<>>
    /\ sorted_hits = <<>>
    /\ out = None
    /\ EarlierIdle
    /\ PageIdle
    /\ FuzzIdle
    /\ RunIdle
    /\ SessionIdle

\* main.py lines 125-126: one more scored finding on the list
CollectFinding ==
    /\ pc = "collect"
    /\ Len(findings) < MaxFindings
    /\ \E f \in SummaryFindings : findings' = Append(findings, f)
    /\ UNCHANGED <<pc, sorted_hits, out, earlierVars, pageVars, fuzzVars, runVars, sessionVars>>

\* main.py line 126: summarize(findings)
Summarize ==
    /\ pc = "collect"
    /\ \E sorted \in {SortedDesc(findings, Len(findings))} :
          /\ sorted_hits' = sorted
          /\ out' = Some(summarize(findings, sorted))
    /\ pc' = "summarized"
    /\ UNCHANGED <<findings, earlierVars, pageVars, fuzzVars, runVars, sessionVars>>

SummaryNext == CollectFinding \/ Summarize

SummarySpec == SummaryInit /\ [][SummaryNext]_vars

----------------------------------------------------------------------------
(* SessionSpec: main.py's "async with BrowserEngine(...) as be": the        *)
(* session's resources are acquired by __aenter__, the body runs, and       *)
(* __aexit__ releases them.  When __aenter__ raises, the with statement     *)
(* does not call __aexit__.                                                 *)

Resources == {"_pw", "browser", "context"}

\* the release count of the resource r raised by one
Released(counts, r) == [counts EXCEPT ![r] = @ + 1]

SessionInit ==
    /\ pc = "aenter_start"
    /\ trace_on_hit \in BOOLEAN
    /\ user_agent \in BOOLEAN
    /\ _pw = "none"
    /\ browser = "none"
    /\ context = "none"
    /\ tracing = FALSE
    /\ releases = [r \in Resources |-> 0]
    /\ exit_path = <<>>
    /\ EarlierIdle
    /\ PageIdle
    /\ SummaryIdle
    /\ FuzzIdle
    /\ RunIdle

\* line 85: self._pw = await async_playwright().start()
StartDriver ==
    /\ pc = "aenter_start"
    /\ \/ /\ _pw' = "open"
          /\ pc' = "aenter_launch"
          /\ UNCHANGED exit_path
       \/ /\ pc' = "session_over"
          /\ exit_path' = Append(exit_path, "start")
          /\ UNCHANGED _pw
    /\ UNCHANGED <<trace_on_hit, user_agent, browser, context, tracing, releases,
                   earlierVars, pageVars, summaryVars, fuzzVars, runVars>>

\* lines 86-89: self.browser = await self._pw.chromium.launch(...)
LaunchBrowser ==
    /\ pc = "aenter_launch"
    /\ \/ /\ browser' = "open"
          /\ pc' = "aenter_context"
          /\ UNCHANGED exit_path
       \/ /\ pc' = "session_over"
          /\ exit_path' = Append(exit_path, "launch")
          /\ UNCHANGED browser
    /\ UNCHANGED <<trace_on_hit, user_agent, _pw, context, tracing, releases,
                   earlierVars, pageVars, summaryVars, fuzzVars, runVars>>

\* lines 90-104: new_context (either branch on user_agent), tracing.start
\* when trace_on_hit, new_page; each of the three may raise
OpenContext ==
    /\ pc = "aenter_context"
    /\ \/ /\ pc' = "session_over"
          /\ exit_path' = Append(exit_path, "new_context")
          /\ UNCHANGED <<context, tracing>>
       \/ /\ trace_on_hit
          /\ context' = "open"
          /\ pc' = "session_over"
          /\ exit_path' = Append(exit_path, "tracing.start")
          /\ UNCHANGED tracing
       \/ /\ context' = "open"
          /\ tracing' = trace_on_hit
          /\ pc' = "session_over"
          /\ exit_path' = Append(exit_path, "new_page")
       \/ /\ context' = "open"
          /\ tracing' = trace_on_hit
          /\ pc' = "body"
          /\ UNCHANGED exit_path
    /\ UNCHANGED <<trace_on_hit, user_agent, _pw, browser, releases,
                   earlierVars, pageVars, summaryVars, fuzzVars, runVars>>

\* lines 140-153, called from the body: _export_trace stops the trace
\* collection and starts it again; either call may raise, and the exception
\* is swallowed
ExportTrace ==
    /\ pc = "body"
    /\ trace_on_hit
    /\ context # "none"
    /\ \/ UNCHANGED tracing
       \/ tracing' = FALSE
       \/ tracing' = TRUE
    /\ UNCHANGED <<pc, trace_on_hit, user_agent, _pw, browser, context, releases,
                   exit_path, earlierVars, pageVars, summaryVars, fuzzVars, runVars>>

\* main.py lines 72-122: the body of the with statement ends, by reaching
\* its end or by an exception
LeaveBody ==
    /\ pc = "body"
    /\ \/ UNCHANGED exit_path
       \/ exit_path' = Append(exit_path, "body")
    /\ pc' = "aexit"
    /\ UNCHANGED <<trace_on_hit, user_agent, _pw, browser, context, tracing, releases,
                   earlierVars, pageVars, summaryVars, fuzzVars, runVars>>

\* lines 107-112: __aexit__'s try block.  tracing.stop is called when
\* trace_on_hit, in a try of its own: an exception it raises is swallowed
AExitStopTracing ==
    /\ pc = "aexit"
    /\ \E stop_ok \in BOOLEAN :
          tracing' = IF trace_on_hit /\ stop_ok THEN FALSE ELSE tracing
    /\ pc' = "aexit_finally"
    /\ UNCHANGED <<trace_on_hit, user_agent, _pw, browser, context, releases, exit_path,
                   earlierVars, pageVars, summaryVars, fuzzVars, runVars>>

\* lines 113-119: __aexit__'s finally block.  The three releases follow one
\* another, so that one that raises leaves the block and the later ones are
\* not called.  A call that raises is not counted as a release.
AExitRelease ==
    /\ pc = "aexit_finally"
    /\ \/ /\ exit_path' = Append(exit_path, "context.close")
          /\ UNCHANGED <<context, browser, _pw, releases>>
       \/ /\ context' = "closed"
          /\ exit_path' = Append(exit_path, "browser.close")
          /\ releases' = Released(releases, "context")
          /\ UNCHANGED <<browser, _pw>>
       \/ /\ context' = "closed"
          /\ browser' = "closed"
          /\ exit_path' = Append(exit_path, "_pw.stop")
          /\ releases' = Released(Released(releases, "context"), "browser")
          /\ UNCHANGED _pw
       \/ /\ context' = "closed"
          /\ browser' = "closed"
          /\ _pw' = "closed"
          /\ releases' = [r \in Resources |-> releases[r] + 1]
          /\ UNCHANGED exit_path
    /\ pc' = "session_over"
    /\ UNCHANGED <<trace_on_hit, user_agent, tracing, earlierVars, pageVars, summaryVars, fuzzVars,
                   runVars>>

SessionNext ==
    \/ StartDriver \/ LaunchBrowser \/ OpenContext \/ ExportTrace \/ LeaveBody
    \/ AExitStopTracing \/ AExitRelease

SessionSpec == SessionInit /\ [][SessionNext]_vars

----------------------------------------------------------------------------
(* FuzzSpec: one call of fuzz_forms or of fuzz_url_params.  The browser     *)
(* raises at most MaxFaults times and at most MaxHits detections find a     *)
(* signal.                                                                  *)

MaxPoints == 2
MaxFaults == 1
MaxHits == 1

\* the run marker
FuzzMarker == CHOOSE mk \in Markers : TRUE

\* the payloads argument: two payloads, told apart by their position
FuzzPayloads == <<"payload 1", "payload 2">>

\* how the wait for the execution signal can end
WaitOutcomes == {"signalled", "not_signalled", "timed_out"}

\* what page.content() can give: nothing (it raised), a document that holds
\* the marker, one that holds only the marker's first characters, and an
\* empty one
DomSnapshots ==
    {None,
     Some(<<"<", "p", ">">> \o FuzzMarker \o <<"<", "/", "p", ">">>),
     Some(<<"<", "p", ">">> \o SubSeq(FuzzMarker, 1, Len(FuzzMarker) - 1) \o <<"<", "/", "p", ">">>),
     Some(<<>>)}

\* the status of the response page.goto returns
NavStatuses == {Some(200), Some(403), Some(429)}

\* the phase begins: nothing attempted yet
FuzzStart ==
    /\ pc \in {"forms_open", "url_attempt"}
    /\ points \in 0..MaxPoints
    /\ pc = "url_attempt" => points > 0
    /\ point_i = 1
    /\ payload_i = 1
    /\ results = <<>>
    /\ wait_outcome = "none"
    /\ dom = None
    /\ executed = FALSE
    /\ reflected = FALSE
    /\ resp_status = None
    /\ gotos = 0
    /\ slept = <<>>
    /\ raised_in = {}
    /\ faults = 0
    /\ hits = 0
    /\ fragment_tried = FALSE
    /\ rotations = 0
    /\ new_query = <<>>
    /\ EarlierIdle
    /\ PageIdle
    /\ SummaryIdle
    /\ RunIdle
    /\ SessionIdle

\* the names of a form's fields
FieldNames == <<"user", "email", "comment">>

\* FuzzSpec runs the phase with the default user-agent mode, on a URL
\* without a query or a form whose fields have names of their own, and
\* with payloads whose hashes differ
FuzzInit ==
    /\ FuzzStart
    /\ ua_mode = "session"
    /\ orig_params = <<>>
    /\ point_names = IF pc = "url_attempt" THEN ParamCandidates(orig_params, points)
                                     ELSE SubSeq(FieldNames, 1, points)
    /\ hashes = <<1, 2>>
    /\ pacing_ms = 0
    /\ jitter_pct = 0

\* the mutant of the loops: after the last pair they begin again
NextPairAgain(attempt) ==
    IF payload_i < Len(FuzzPayloads)
    THEN /\ payload_i' = payload_i + 1
         /\ pc' = attempt
         /\ UNCHANGED point_i
    ELSE IF point_i < points
    THEN /\ point_i' = point_i + 1
         /\ payload_i' = 1
         /\ pc' = attempt
    ELSE /\ point_i' = 1
         /\ payload_i' = 1
         /\ pc' = attempt

\* the two nested for loops move on to the next (point, payload) pair, or
\* the function returns results
NextPair(attempt) ==
    IF payload_i < Len(FuzzPayloads)
    THEN /\ payload_i' = payload_i + 1
         /\ pc' = attempt
         /\ UNCHANGED point_i
    ELSE IF point_i < points
    THEN /\ point_i' = point_i + 1
         /\ payload_i' = 1
         /\ pc' = attempt
    ELSE /\ pc' = "phase_done"
         /\ UNCHANGED <<point_i, payload_i>>

\* the browser raises inside the attempt under way
RaiseInAttempt(handler) ==
    /\ faults < MaxFaults
    /\ faults' = faults + 1
    /\ raised_in' = raised_in \cup {<<point_i, payload_i>>}
    /\ pc' = handler

\* _check_signals on what the browser gives: the signals found
Detect(signals) ==
    \E w \in WaitOutcomes, snapshot \in DomSnapshots :
        /\ signals = CheckSignals(w, snapshot, FuzzMarker)
        /\ wait_outcome' = w
        /\ dom' = snapshot
        /\ executed' = signals.executed
        /\ reflected' = signals.reflected
        /\ IF signals.executed \/ signals.reflected
           THEN hits < MaxHits /\ hits' = hits + 1
           ELSE UNCHANGED hits

\* lines 291-308: fuzz_forms navigates to the page and collects the named
\* fields of its forms; an exception raised here leaves fuzz_forms
FormsOpen ==
    /\ pc = "forms_open"
    /\ \/ /\ faults < MaxFaults
          /\ faults' = faults + 1
          /\ pc' = "phase_raised"
       \/ /\ pc' = IF points = 0 THEN "phase_done" ELSE "form_attempt"
          /\ UNCHANGED faults
    /\ UNCHANGED <<points, point_names, orig_params, ua_mode, hashes, pacing_ms, jitter_pct,
                   rotations, new_query, point_i, payload_i, results, wait_outcome, dom, executed,
                   reflected, resp_status, gotos, slept, raised_in, hits, fragment_tried,
                   earlierVars, pageVars, summaryVars, runVars, sessionVars>>

\* lines 312-359: one form attempt: the init script, the fields filled, the
\* form submitted, the detector, the evidence, results.append(hit), the
\* pacing sleep
FormAttempt ==
    /\ pc = "form_attempt"
    /\ rotations' = _maybe_rotate_ua(ua_mode)
    /\ \/ /\ RaiseInAttempt("form_except")
          /\ slept' = <<>>
          /\ UNCHANGED <<point_i, payload_i, results, wait_outcome, dom, executed,
                         reflected, hits>>
       \/ /\ \E signals \in [executed : BOOLEAN, reflected : BOOLEAN] :
                /\ Detect(signals)
                /\ results' = Append(results,
                                     SignalRecord("form", point_i, payload_i, signals))
          /\ slept' \in _paced_sleep(pacing_ms, jitter_pct)
          /\ NextPair("form_attempt")
          /\ UNCHANGED <<faults, raised_in>>
    /\ UNCHANGED <<points, point_names, orig_params, ua_mode, hashes, pacing_ms, jitter_pct,
                   new_query, resp_status, gotos, fragment_tried,
                   earlierVars, pageVars, summaryVars, runVars, sessionVars>>

\* lines 360-370: the except clause of a form attempt
FormCatch ==
    /\ pc = "form_except"
    /\ results' = Append(results, ErrorRecord("form", point_i, payload_i))
    /\ NextPair("form_attempt")
    /\ UNCHANGED <<points, point_names, orig_params, ua_mode, hashes, pacing_ms, jitter_pct,
                   rotations, new_query, wait_outcome, dom, executed, reflected, resp_status, gotos,
                   slept, raised_in, faults, hits, fragment_tried,
                   earlierVars, pageVars, summaryVars, runVars, sessionVars>>

\* lines 405-414: a URL attempt begins: the user agent, the URL with the
\* parameter set to the payload, the init script, page.goto.  The response's
\* status is not looked at.
UrlNavigate ==
    /\ pc = "url_attempt"
    /\ slept' = <<>>
    /\ fragment_tried' = FALSE
    /\ rotations' = _maybe_rotate_ua(ua_mode)
    /\ new_query' = BuildQuery(orig_params, point_names[point_i], FuzzPayloads[payload_i])
    /\ \/ /\ RaiseInAttempt("url_except")
          /\ gotos' \in {0, 1}
          /\ UNCHANGED resp_status
       \/ /\ gotos' = 1
          /\ resp_status' \in NavStatuses
          /\ pc' = "url_detect"
          /\ UNCHANGED <<faults, raised_in>>
    /\ UNCHANGED <<points, point_names, orig_params, ua_mode, hashes, pacing_ms, jitter_pct,
                   point_i, payload_i, results, wait_outcome, dom, executed,
                   reflected, hits, earlierVars, pageVars, summaryVars, runVars, sessionVars>>

\* lines 416-436: the detector, the hit, the evidence, results.append(hit);
\* _record_evidence raises when the evidence directory cannot be made
UrlDetect ==
    /\ pc = "url_detect"
    /\ \/ /\ RaiseInAttempt("url_except")
          /\ UNCHANGED <<results, wait_outcome, dom, executed, reflected, hits>>
       \/ /\ \E signals \in [executed : BOOLEAN, reflected : BOOLEAN] :
                /\ Detect(signals)
                /\ results' = Append(results,
                                     SignalRecord("url_param", point_i, payload_i, signals))
                /\ pc' = IF FragmentNeeded(signals) THEN "url_fragment" ELSE "url_pace"
          /\ UNCHANGED <<faults, raised_in>>
    /\ UNCHANGED <<points, point_names, orig_params, ua_mode, hashes, pacing_ms, jitter_pct,
                   rotations, new_query, point_i, payload_i, resp_status, gotos, slept, fragment_tried,
                   earlierVars, pageVars, summaryVars, runVars, sessionVars>>

\* lines 439-462: the fragment fallback: the init script, page.goto, the
\* hashchange event, the detector, the evidence, results.append(hit2)
UrlFragment ==
    /\ pc = "url_fragment"
    /\ fragment_tried' = TRUE
    /\ gotos' = gotos + 1
    /\ \/ /\ RaiseInAttempt("url_except")
          /\ UNCHANGED <<results, wait_outcome, dom, executed, reflected, hits>>
       \/ /\ \E signals \in [executed : BOOLEAN, reflected : BOOLEAN] :
                /\ Detect(signals)
                /\ results' = Append(results,
                                     SignalRecord("url_fragment", point_i, payload_i, signals))
          /\ pc' = "url_pace"
          /\ UNCHANGED <<faults, raised_in>>
    /\ UNCHANGED <<points, point_names, orig_params, ua_mode, hashes, pacing_ms, jitter_pct,
                   rotations, new_query, point_i, payload_i, resp_status, slept,
                   earlierVars, pageVars, summaryVars, runVars, sessionVars>>

\* lines 464-465: the pacing sleep that ends an attempt
UrlPace ==
    /\ pc = "url_pace"
    /\ \E s \in _paced_sleep(pacing_ms, jitter_pct) : slept' = slept \o s
    /\ NextPair("url_attempt")
    /\ UNCHANGED <<points, point_names, orig_params, ua_mode, hashes, pacing_ms, jitter_pct,
                   rotations, new_query, results, wait_outcome, dom, executed, reflected, resp_status,
                   gotos, raised_in, faults, hits, fragment_tried,
                   earlierVars, pageVars, summaryVars, runVars, sessionVars>>

\* the mutant of the except clause: the error is recorded and the function
\* returns
UrlCatchAndReturn ==
    /\ pc = "url_except"
    /\ results' = Append(results, ErrorRecord("url_param", point_i, payload_i))
    /\ slept' = Append(slept, BackoffMs)
    /\ pc' = "phase_done"
    /\ UNCHANGED <<points, point_names, orig_params, ua_mode, hashes, pacing_ms, jitter_pct,
                   rotations, new_query, point_i, payload_i, wait_outcome, dom, executed, reflected,
                   resp_status, gotos, raised_in, faults, hits, fragment_tried,
                   earlierVars, pageVars, summaryVars, runVars, sessionVars>>

\* lines 466-478: the except clause of a URL attempt: the error dict, and a
\* sleep of backoff_ms
UrlCatch ==
    /\ pc = "url_except"
    /\ results' = Append(results, ErrorRecord("url_param", point_i, payload_i))
    /\ slept' = Append(slept, BackoffMs)
    /\ NextPair("url_attempt")
    /\ UNCHANGED <<points, point_names, orig_params, ua_mode, hashes, pacing_ms, jitter_pct,
                   rotations, new_query, wait_outcome, dom, executed, reflected, resp_status, gotos,
                   raised_in, faults, hits, fragment_tried,
                   earlierVars, pageVars, summaryVars, runVars, sessionVars>>

FuzzNext ==
    \/ FormsOpen \/ FormAttempt \/ FormCatch
    \/ UrlNavigate \/ UrlDetect \/ UrlFragment \/ UrlPace \/ UrlCatch

FuzzSpec == FuzzInit /\ [][FuzzNext]_vars

----------------------------------------------------------------------------
(* RunSpec: cli/main.py's run, from the moment the browser session has been *)
(* obtained: the first navigation, the two fuzzing phases, the sink-hint    *)
(* pass, the scoring and the reports                                        *)

MaxPhaseFindings == 2

\* the findings a fuzzing call can return: one with a signal and one with an
\* error
RunFindings ==
    {SignalRecord("form", 1, 1, [executed |-> FALSE, reflected |-> TRUE]),
     ErrorRecord("form", 1, 1)}

\* the lists a fuzzing call can return
PhaseResults ==
    UNION {[1..n -> RunFindings] : n \in 0..MaxPhaseFindings}

RunInit ==
    /\ pc = "run_navigate"
    /\ fuzz_url \in BOOLEAN
    /\ run_results = <<>>
    /\ report = None
    /\ EarlierIdle
    /\ PageIdle
    /\ SummaryIdle
    /\ FuzzIdle
    /\ SessionIdle

\* lines 83-93: be.navigate(args.url), outside any try, then the payloads
RunNavigate ==
    /\ pc = "run_navigate"
    /\ pc' \in {"run_forms", "run_raised"}
    /\ UNCHANGED <<fuzz_url, run_results, report,
                   earlierVars, pageVars, summaryVars, fuzzVars, sessionVars>>

\* lines 96-97: fuzz_forms returns its findings, or the navigation that
\* opens it (browser_engine.py line 292) raises
RunFuzzForms ==
    /\ pc = "run_forms"
    /\ \/ /\ pc' = "run_raised"
          /\ UNCHANGED run_results
       \/ /\ \E res_forms \in PhaseResults : run_results' = run_results \o res_forms
          /\ pc' = IF fuzz_url THEN "run_url" ELSE "run_hints"
    /\ UNCHANGED <<fuzz_url, report, earlierVars, pageVars, summaryVars, fuzzVars, sessionVars>>

\* lines 100-102: fuzz_url_params returns its findings
RunFuzzUrl ==
    /\ pc = "run_url"
    /\ \E res_url \in PhaseResults : run_results' = run_results \o res_url
    /\ pc' = "run_hints"
    /\ UNCHANGED <<fuzz_url, report, earlierVars, pageVars, summaryVars, fuzzVars, sessionVars>>

\* lines 105-122: the sink-hint pass, in a try: a second fuzz_forms whose
\* findings are added, or nothing when there is no hint or when it raises
RunHintPass ==
    /\ pc = "run_hints"
    /\ \E res_forms2 \in PhaseResults : run_results' = run_results \o res_forms2
    /\ pc' = "run_score"
    /\ UNCHANGED <<fuzz_url, report, earlierVars, pageVars, summaryVars, fuzzVars, sessionVars>>

\* lines 125-126: score_hit(r, policy=args.severity_policy) for every r of
\* results.  score_hit(hit) takes no policy argument, so the first call
\* raises TypeError; without findings there is no call.
RunScore ==
    /\ pc = "run_score"
    /\ pc' = IF run_results = <<>> THEN "run_save" ELSE "run_raised"
    /\ UNCHANGED <<fuzz_url, run_results, report,
                   earlierVars, pageVars, summaryVars, fuzzVars, sessionVars>>

\* lines 129-130: reporter.save_json and save_html are given results
RunSave ==
    /\ pc = "run_save"
    /\ report' = Some(run_results)
    /\ pc' = "run_done"
    /\ UNCHANGED <<fuzz_url, run_results, earlierVars, pageVars, summaryVars, fuzzVars, sessionVars>>

RunNext ==
    RunNavigate \/ RunFuzzForms \/ RunFuzzUrl \/ RunHintPass \/ RunScore \/ RunSave

RunSpec == RunInit /\ [][RunNext]_vars

----------------------------------------------------------------------------
(* FuzzLiveSpec: the call of FuzzSpec over at most LivePoints points, with  *)
(* the fairness the program has: it is one coroutine, and each of its steps *)
(* is an await that returns or raises within its timeout, or a sleep of a   *)
(* finite time, so a step that can be taken is taken.                       *)

LivePoints == 1

FuzzLiveInit ==
    /\ FuzzInit
    /\ points <= LivePoints

FuzzLiveSpec == FuzzLiveInit /\ [][FuzzNext]_vars /\ WF_vars(FuzzNext)

----------------------------------------------------------------------------
(* FuzzInputsSpec: the same call of fuzz_forms or of fuzz_url_params, over  *)
(* the inputs FuzzSpec holds fixed: the user-agent mode, the query of       *)
(* base_url, the names of the form's fields, and the payloads' hashes.      *)

\* ua_mode: "session" unless --ua-rotate per-request is given
UaModes == {"session", "per-request"}

\* the pair key=value of a query
Pair(key, value) == [k |-> key, v |-> value]

\* the query of base_url: none, a key given twice, a key given twice around
\* another one, and a key that is one of the synthetic names
BaseQueries ==
    {<<>>,
     <<Pair("a", "1"), Pair("a", "2")>>,
     <<Pair("a", "1"), Pair("b", "2"), Pair("a", "3")>>,
     <<Pair("q", "1"), Pair("a", "2")>>}

\* abs(hash(p)) % 10**8 of the two payloads: Python seeds str hashes per
\* process, and two payloads may have the same reduced hash
PayloadHashes == {<<1, 2>>, <<1, 1>>}

\* --pacing-ms and --jitter-pct: the defaults, and a base of 200 ms with a
\* jitter of a quarter
Pacings == {<<0, 0>>, <<200, 25>>}

FuzzInputsInit ==
    /\ FuzzStart
    /\ ua_mode \in UaModes
    /\ hashes \in PayloadHashes
    /\ \E pacing \in Pacings :
          /\ pacing_ms = pacing[1]
          /\ jitter_pct = pacing[2]
    /\ IF pc = "url_attempt"
       THEN /\ orig_params \in BaseQueries
            /\ point_names = ParamCandidates(orig_params, points)
       ELSE /\ orig_params = <<>>
            /\ point_names \in [1..points -> {FieldNames[1], FieldNames[2]}]

FuzzInputsSpec == FuzzInputsInit /\ [][FuzzNext]_vars

----------------------------------------------------------------------------
(* PageSpec: the page over the attempts of a phase.  Each attempt registers *)
(* the scripts, navigates, lets the page run, asks the detector and records *)
(* the evidence.  At most MaxAttempts attempts are made and the page calls  *)
(* at most MaxSinkCalls hooked primitives in a document.                    *)

MaxAttempts == 2
MaxSinkCalls == 2

\* the title of the pages of the target
PageTitle == <<"S", "h", "o", "p">>

\* what the name marker is bound to in the target's pages: nothing, the
\* empty string, a string of the page's own
PageMarkers == {None, Some(<<>>), Some(<<"p", "i", "n">>)}

\* the hooked primitives the page calls
PageSinks == {"document.write", "innerHTML"}

\* what the document does with the payload: it is not in the document, it
\* is shown as inert text, it is in the document as script
PayloadPlaces == {"none", "inert", "script"}

PageInit ==
    /\ pc = "page_idle"
    /\ page_marker \in PageMarkers
    /\ init_scripts = 0
    /\ hook_layers = 0
    /\ doc_payload = "none"
    /\ script_ran = FALSE
    /\ title = PageTitle
    /\ hit_marked = FALSE
    /\ mutations = FALSE
    /\ sink_log = <<>>
    /\ original_calls = <<>>
    /\ page_wait = "none"
    /\ page_hit = None
    /\ prev_sinks = None
    /\ EarlierIdle
    /\ SummaryIdle
    /\ FuzzIdle
    /\ RunIdle
    /\ SessionIdle

\* the mutant of the instrumentation: the next attempt registers its scripts
\* while the attempt before it is still under way
PageInjectAnytime ==
    /\ init_scripts < MaxAttempts
    /\ init_scripts' = init_scripts + 1
    /\ pc' = "page_injected"
    /\ UNCHANGED <<page_marker, hook_layers, doc_payload, script_ran, title, hit_marked,
                   mutations, sink_log, original_calls, page_wait, page_hit, prev_sinks,
                   earlierVars, summaryVars, fuzzVars, runVars, sessionVars>>

\* sandbox_executor.py lines 101-104: inject_init_script registers the two
\* scripts once more; the page runs every registered script in each new
\* document
PageInject ==
    /\ pc = "page_idle"
    /\ init_scripts < MaxAttempts
    /\ init_scripts' = init_scripts + 1
    /\ pc' = "page_injected"
    /\ UNCHANGED <<page_marker, hook_layers, doc_payload, script_ran, title, hit_marked,
                   mutations, sink_log, original_calls, page_wait, page_hit, prev_sinks,
                   earlierVars, summaryVars, fuzzVars, runVars, sessionVars>>

\* browser_engine.py lines 414 and 443, and the form's submit: the
\* navigation of the attempt.  It loads a new document, in which every
\* registered script runs before the page's own, or, as a change of the
\* fragment only, it stays in the document at hand, whose router may put
\* the payload in.
PageNavigate ==
    /\ pc = "page_injected"
    /\ \/ /\ hook_layers' = init_scripts
          /\ doc_payload' \in PayloadPlaces
          /\ script_ran' = FALSE
          /\ title' = PageTitle
          /\ hit_marked' = FALSE
          /\ mutations' = TRUE
          /\ sink_log' = <<>>
          /\ original_calls' = <<>>
          /\ prev_sinks' = None
       \/ /\ hook_layers > 0
          /\ doc_payload' \in {doc_payload, "inert", "script"}
          /\ mutations' = (mutations \/ doc_payload' # doc_payload)
          /\ prev_sinks' = IF page_hit.some /\ page_hit.val.sinks_read
                           THEN Some(page_hit.val.sinks) ELSE prev_sinks
          /\ UNCHANGED <<hook_layers, script_ran, title, hit_marked, sink_log,
                         original_calls>>
    /\ page_wait' = "none"
    /\ page_hit' = None
    /\ pc' = "page_live"
    /\ UNCHANGED <<page_marker, init_scripts,
                   earlierVars, summaryVars, fuzzVars, runVars, sessionVars>>

\* payloads/mutator.py line 36: the payload's script runs
JsCmdRuns ==
    /\ pc = "page_live"
    /\ doc_payload = "script"
    /\ ~script_ran
    /\ script_ran' = TRUE
    /\ title' = JsCmdTitle(FuzzMarker)
    /\ mutations' = (hook_layers > 0)
    /\ UNCHANGED <<pc, page_marker, init_scripts, hook_layers, doc_payload, hit_marked,
                   sink_log, original_calls, page_wait, page_hit, prev_sinks,
                   earlierVars, summaryVars, fuzzVars, runVars, sessionVars>>

\* sandbox_executor.py lines 6-66: the page calls a hooked primitive
CallSink ==
    /\ pc = "page_live"
    /\ Len(original_calls) < MaxSinkCalls
    /\ \E nm \in PageSinks :
          /\ sink_log' = sink_log \o LoggedBy(nm, hook_layers)
          /\ original_calls' = Append(original_calls, nm)
    /\ mutations' = (mutations \/ hook_layers > 0)
    /\ UNCHANGED <<pc, page_marker, init_scripts, hook_layers, doc_payload, script_ran,
                   title, hit_marked, page_wait, page_hit, prev_sinks,
                   earlierVars, summaryVars, fuzzVars, runVars, sessionVars>>

\* sandbox_executor.py lines 72-81: the MutationObserver's callback: it
\* calls markHit when the marker is in innerHTML
ObserverFires ==
    /\ pc = "page_live"
    /\ mutations
    /\ hook_layers > 0
    /\ mutations' = FALSE
    /\ IF Contains(InnerHtml(title, doc_payload # "none", FuzzMarker), FuzzMarker)
       THEN /\ title' = HitTitle(FuzzMarker)
            /\ hit_marked' = TRUE
       ELSE UNCHANGED <<title, hit_marked>>
    /\ UNCHANGED <<pc, page_marker, init_scripts, hook_layers, doc_payload, script_ran,
                   sink_log, original_calls, page_wait, page_hit, prev_sinks,
                   earlierVars, summaryVars, fuzzVars, runVars, sessionVars>>

\* sandbox_executor.py lines 83-87: the interval's callback writes the title
\* again when the page has written over it
IntervalTick ==
    /\ pc = "page_live"
    /\ hook_layers > 0
    /\ hit_marked
    /\ ~Contains(title, HitTitle(FuzzMarker))
    /\ title' = HitTitle(FuzzMarker)
    /\ mutations' = TRUE
    /\ UNCHANGED <<pc, page_marker, init_scripts, hook_layers, doc_payload, script_ran,
                   hit_marked, sink_log, original_calls, page_wait, page_hit, prev_sinks,
                   earlierVars, summaryVars, fuzzVars, runVars, sessionVars>>

\* browser_engine.py lines 239-251 and 424-433: _check_signals on the page
\* as it is when the wait ends, and the hit dict; page.content() may raise
PageCheck ==
    /\ pc = "page_live"
    /\ page_wait' = WaitEnd(title, page_marker)
    /\ \E snapshot \in {None, Some(InnerHtml(title, doc_payload # "none", FuzzMarker))} :
       \E signals \in {CheckSignals(page_wait', snapshot, FuzzMarker)} :
          page_hit' = Some([executed |-> signals.executed,
                            reflected |-> signals.reflected,
                            screenshot |-> FALSE, sinks |-> <<>>,
                            sinks_read |-> FALSE, trace |-> FALSE])
    /\ pc' = "page_checked"
    /\ UNCHANGED <<page_marker, init_scripts, hook_layers, doc_payload, script_ran, title,
                   hit_marked, mutations, sink_log, original_calls, prev_sinks,
                   earlierVars, summaryVars, fuzzVars, runVars, sessionVars>>

\* the mutant of the evidence capture: the read of the sink log empties it
PageRecordDraining ==
    /\ pc = "page_checked"
    /\ \E shot \in BOOLEAN, read \in BOOLEAN, exported \in BOOLEAN :
          page_hit' = Some([page_hit.val EXCEPT
                              !.screenshot = shot,
                              !.sinks = IF read THEN sink_log ELSE <<>>,
                              !.sinks_read = read,
                              !.trace = (page_hit.val.executed \/ page_hit.val.reflected)
                                        /\ exported])
    /\ sink_log' = <<>>
    /\ pc' = "page_idle"
    /\ UNCHANGED <<page_marker, init_scripts, hook_layers, doc_payload, script_ran, title,
                   hit_marked, mutations, original_calls, page_wait, prev_sinks,
                   earlierVars, summaryVars, fuzzVars, runVars, sessionVars>>

\* browser_engine.py lines 253-274: _record_evidence: the screenshot, which
\* may fail; the sink log as get_sink_log reads it, [] when the read fails;
\* a trace when the hit has a signal, None when the export fails
PageRecord ==
    /\ pc = "page_checked"
    /\ \E shot \in BOOLEAN, read \in BOOLEAN, exported \in BOOLEAN :
          page_hit' = Some([page_hit.val EXCEPT
                              !.screenshot = shot,
                              !.sinks = IF read THEN sink_log ELSE <<>>,
                              !.sinks_read = read,
                              !.trace = (page_hit.val.executed \/ page_hit.val.reflected)
                                        /\ exported])
    /\ pc' = "page_idle"
    /\ UNCHANGED <<page_marker, init_scripts, hook_layers, doc_payload, script_ran, title,
                   hit_marked, mutations, sink_log, original_calls, page_wait, prev_sinks,
                   earlierVars, summaryVars, fuzzVars, runVars, sessionVars>>

PageNext ==
    \/ PageInject \/ PageNavigate \/ JsCmdRuns \/ CallSink \/ ObserverFires
    \/ IntervalTick \/ PageCheck \/ PageRecord

PageSpec == PageInit /\ [][PageNext]_vars

----------------------------------------------------------------------------
(* Claims about parse_csp, checked under CspSpec                            *)

\* the names of the header's directives, in lower case: the first word of
\* each of its ";"-separated pieces that has one
DirectiveNames(h) ==
    {Lower(words[1]) : words \in {SplitWs(piece) : piece \in Range(SplitOn(h, ";"))} \ {<<>>}}

\* the header has a directive called name
HasDirective(h, name) == name \in DirectiveNames(h)

\* kw is one of the whitespace-separated tokens of val
TokenMember(kw, val) ==
    \E i \in 1..Len(val) :
        /\ MatchAt(val, kw, i)
        /\ (i = 1 \/ val[i - 1] \in Whitespace)
        /\ (i + Len(kw) > Len(val) \/ val[i + Len(kw)] \in Whitespace)

AllPermissive(c) == c.allows_inline /\ c.allows_eval /\ c.allows_data /\ c.allows_blob

\* the four flags are the keyword memberships in the tokens of val
FlagsFromValue(c, val) ==
    /\ c.allows_inline = TokenMember(KwUnsafeInline, val)
    /\ c.allows_eval = TokenMember(KwUnsafeEval, val)
    /\ c.allows_data = TokenMember(KwData, val)
    /\ c.allows_blob = TokenMember(KwBlob, val)

\* the values of the header's script-src directives
ScriptSrcValues(h) ==
    {Strip(Drop(LStrip(SplitOn(h, ";")[i]), Len(KwScriptSrc) + 1)) :
        i \in {j \in 1..Len(SplitOn(h, ";")) :
                 LET words == SplitWs(SplitOn(h, ";")[j])
                 IN  words # <<>> /\ Lower(words[1]) = KwScriptSrc}}

HeaderDefaultSrcSelf ==
    <<"d", "e", "f", "a", "u", "l", "t", "-", "s", "r", "c", " ", "'", "s", "e", "l", "f", "'">>

\* C6: for every header, absent, empty or not, that has neither a script-src
\* nor a default-src directive, parse_csp returns allows_inline, allows_eval,
\* allows_data and allows_blob all true.
C6_NoScriptDirectiveIsPermissive ==
    (/\ pc = "csp_parsed"
     /\ \/ ~header_value.some
        \/ \A names \in {DirectiveNames(header_value.val)} :
              KwScriptSrc \notin names /\ KwDefaultSrc \notin names)
    => AllPermissive(info.val)

\* a non-empty header with a directive of another name that carries data:
C6_Witness ==
    /\ pc = "csp_parsed"
    /\ header_value.some
    /\ HasDirective(header_value.val, <<"i", "m", "g", "-", "s", "r", "c">>)
    /\ Contains(header_value.val, KwData)
    /\ ~HasDirective(header_value.val, KwScriptSrc)
    /\ ~HasDirective(header_value.val, KwDefaultSrc)
    /\ AllPermissive(info.val)

\* C7: for every header with a script-src directive, one with an empty value
\* list included, the capabilities parse_csp returns are those of the tokens
\* of a script-src directive of the header (default-src is not consulted).
C7_ScriptSrcDecides ==
    (/\ pc = "csp_parsed"
     /\ header_value.some
     /\ HasDirective(header_value.val, KwScriptSrc))
    => \E v \in ScriptSrcValues(header_value.val) : FlagsFromValue(info.val, v)

\* C8: when parse_csp selects a script directive, each flag is the membership
\* of its keyword in the whitespace-separated tokens of the selected value, and
\* the header "default-src 'self'" gives allows_inline = false.
C8_FlagsAreTokenMembership ==
    pc = "csp_parsed" /\ header_value.some =>
        /\ \A selected \in {SelectScriptSrc(Directives(header_value.val))} :
              selected.some => FlagsFromValue(info.val, selected.val)
        /\ header_value.val = HeaderDefaultSrcSelf => ~info.val.allows_inline

C8_Witness ==
    /\ pc = "csp_parsed"
    /\ header_value = Some(HeaderDefaultSrcSelf)
    /\ ~info.val.allows_inline
    /\ ~info.val.allows_data

----------------------------------------------------------------------------
(* Claims about build_payloads and the CLI's cap, checked under BuildSpec   *)

\* the template needs none of what a CSP can block: it survives any filter
SurvivesAnyFilter(t) ==
    /\ ~Contains(t, TagScript)
    /\ ~Contains(t, WordSrcdoc)
    /\ ~Contains(t, KwData)
    /\ ~Contains(t, KwBlob)

\* some template of the filter's output survives any filter, so the output is
\* the filtered list and not the fall-back to the unfiltered one
OtherTemplateSurvives == \E i \in 1..Len(templates) : SurvivesAnyFilter(templates[i])

\* the CSP blocks inline scripts, data: and blob: at once
BlocksAll(c) == c.some /\ ~c.val.allows_inline /\ ~c.val.allows_data /\ ~c.val.allows_blob

\* C1: build_payloads never returns an empty list (a template always exists:
\* the built-in ones, or the external ones in replace mode), whatever the CSP
\* capability record, one that blocks inline, data: and blob: included.
C1_NeverEmpty ==
    pc = "build_done" => final.some /\ Len(final.val) > 0

\* replace mode with a wordlist of one data: and one srcdoc template, under a
\* CSP that blocks inline, data: and blob:: the filter removes every template
C1_Witness ==
    /\ pc = "build_done"
    /\ BlocksAll(csp)
    /\ csp.val.raw = HeaderDefaultSrcSelf
    /\ mode = "replace"
    /\ external_paths = <<WordlistB>>
    /\ Len(final.val) > 0

NoDuplicates(s) == \A i, j \in 1..Len(s) : s[i] = s[j] => i = j

\* the first n entries of s, all of s when n = 0
FirstEntries(s, n) == IF n > 0 /\ n < Len(s) THEN SubSeq(s, 1, n) ELSE s

\* C3: the list handed to the fuzzing phases has no duplicate and is, for
\* maxPayloads > 0, the first maxPayloads entries of the uncapped
\* de-duplicated list in first-seen order (all of it for maxPayloads = 0).
C3_HandedIsFirstEntries ==
    (pc = "handed" /\ handed.some) =>
        /\ NoDuplicates(handed.val)
        /\ handed.val = FirstEntries(Dedup(payloads), args_max_payloads)

\* C4: when the CSP capabilities disallow inline scripts and another template
\* survives the filter, a template that needs inline execution is in the
\* filter's output only if its retention draw succeeded.
C4_InlineKeptOnlyOnDraw ==
    (/\ pc = "build_loop"
     /\ csp.some
     /\ ~csp.val.allows_inline
     /\ OtherTemplateSurvives)
    => \A i \in 1..Len(templates) :
          Contains(templates[i], TagScript) =>
              \E d \in 1..Len(inline_draws) :
                  inline_draws[d].t = templates[i] /\ inline_draws[d].kept

\* C5: when the parsed capability allows_data (allows_blob) is false and
\* another template survives the filter, no template containing data: (blob:)
\* is in the filter's output, also for a header that mentions data: or blob:
\* under a directive other than the selected one.
C5_DataBlobDropped ==
    (pc = "build_loop" /\ csp.some /\ OtherTemplateSurvives) =>
        \A i \in 1..Len(templates) :
            /\ ~csp.val.allows_data => ~Contains(templates[i], KwData)
            /\ ~csp.val.allows_blob => ~Contains(templates[i], KwBlob)

\* C9: the variants the evasion pipeline returns for a substituted payload
\* string hold that string itself, unchanged.
C9_VariantsHoldOriginal ==
    (pc = "build_loop" /\ tpl_i > 1) => InSeq(filled, variants)

----------------------------------------------------------------------------
(* Claims about score_hit, checked under ScoreSpec                          *)

\* b is a with one more entry at the end of its sink log
OneMoreSink(a, b) ==
    /\ Len(b.sinks) = Len(a.sinks) + 1
    /\ a = [b EXCEPT !.sinks = SubSeq(@, 1, Len(a.sinks))]

\* a is reflected-only, and b is a but executed
ExecutedInsteadOfReflected(a, b) ==
    /\ ~a.executed
    /\ a.reflected
    /\ b.executed
    /\ a = [b EXCEPT !.executed = FALSE, !.reflected = TRUE]

\* C10: score_hit is monotonic: an executed finding scores at least what the
\* otherwise identical reflected-only finding scores, and a finding with one
\* more sink-log entry scores at least what it scored without the entry.
C10_ScoreMonotonic ==
    (pc = "scored" /\ prev_hit.some) =>
        /\ ExecutedInsteadOfReflected(prev_hit.val, hit) =>
              hit_scored.val.score >= prev_scored.val.score
        /\ OneMoreSink(prev_hit.val, hit) =>
              hit_scored.val.score >= prev_scored.val.score

\* a reflected-only finding answered with a 4xx status, scored, then
\* confirmed as executed with a weighted sink entry logged, scores more
C10_Witness ==
    /\ pc = "scored"
    /\ prev_hit.some
    /\ ExecutedInsteadOfReflected(prev_hit.val, hit)
    /\ hit.status = Some(404)
    /\ Len(hit.sinks) > 0
    /\ hit_scored.val.score > prev_scored.val.score

\* the sum score_hit has built up when it reaches the clamp on line 55
PreClampScore(h) ==
    PrimarySignal(h) + SinksScore(SinkNames(h.sinks), 1) + EvidenceScore(h)
    + StatusScore(h.status)

\* C11: whatever the finding's signals, sink entries, evidence and status,
\* the score score_hit writes is an integer in 0..100: a sum above 100 is
\* written as 100, a negative sum as 0, and any other sum as it is.
C11_ScoreClamped ==
    pc = "scored" =>
        \A raw \in {PreClampScore(hit)} :
            /\ hit_scored.val.score \in 0..100
            /\ raw > 100 => hit_scored.val.score = 100
            /\ raw < 0 => hit_scored.val.score = 0
            /\ raw \in 0..100 => hit_scored.val.score = raw

\* scenario C: an executed finding with one innerHTML entry sums to 102 and
\* is written as 100, Critical
C11_Witness ==
    /\ pc = "scored"
    /\ hit.executed
    /\ hit.sinks = <<Some(<<"i", "n", "n", "e", "r", "H", "T", "M", "L">>)>>
    /\ PreClampScore(hit) = 102
    /\ hit_scored.val = [score |-> 100, severity |-> "Critical"]

\* the severities of the spec's bands that hold the score s
BandsHolding(s) ==
    {b \in {"Critical", "High", "Medium", "Low", "Info"} :
        \/ b = "Critical" /\ s >= 90
        \/ b = "High" /\ s \in 70..89
        \/ b = "Medium" /\ s \in 40..69
        \/ b = "Low" /\ s \in 15..39
        \/ b = "Info" /\ s \in 0..14}

\* C12: every integer score in 0..100 lies in exactly one band, Critical
\* from 90, High 70..89, Medium 40..69, Low 15..39, Info 0..14, and that
\* band is the severity score_hit writes next to the score.
C12_BandsPartition ==
    /\ \A s \in 0..100 : BandsHolding(s) = {Scored(s).severity}
    /\ pc = "scored" =>
          BandsHolding(hit_scored.val.score) = {hit_scored.val.severity}

\* a finding scored 89, one below the Critical threshold, is High
C12_Witness ==
    /\ pc = "scored"
    /\ hit_scored.val = [score |-> 89, severity |-> "High"]

\* the weight of the weighted sink called nm, 0 when there is none
WeightOfSinkNamed(nm) ==
    IF \E k \in 1..Len(SINK_WEIGHTS) : SINK_WEIGHTS[k].key = nm
    THEN SINK_WEIGHTS[CHOOSE k \in 1..Len(SINK_WEIGHTS) : SINK_WEIGHTS[k].key = nm].w
    ELSE 0

\* C13: a sink-log entry adds to the pre-clamp score the weight of the
\* weighted sink it names, once, and nothing when it names no weighted sink.
C13_EntryAddsItsWeight ==
    (pc = "scored" /\ prev_hit.some /\ OneMoreSink(prev_hit.val, hit)) =>
        \A nm \in {SinkNames(hit.sinks)[Len(hit.sinks)]} :
            PreClampScore(hit) = PreClampScore(prev_hit.val) + WeightOfSinkNamed(nm)

----------------------------------------------------------------------------
(* Claims about summarize, checked under SummarySpec                        *)

\* how many entries of the list s equal f
Occurrences(s, f) == Cardinality({i \in 1..Len(s) : s[i] = f})

\* the key (score, executed, number of sink entries) of a is strictly greater
\* than that of b
HasGreaterKey(a, b) ==
    \/ a.score > b.score
    \/ /\ a.score = b.score
       /\ \/ a.executed /\ ~b.executed
          \/ a.executed = b.executed /\ Len(a.sinks) > Len(b.sinks)

\* C14: summarize returns min(5, n) top findings, they are findings of its
\* argument in non-increasing order of the key (score, executed, number of
\* sink entries), and no finding left out has a key above that of a finding
\* in the list.
C14_TopFindingsAreTheGreatest ==
    pc = "summarized" =>
        \A n \in {Len(findings)} : \A top \in {out.val.top_findings} :
            /\ Len(top) = (IF n < 5 THEN n ELSE 5)
            /\ Len(sorted_hits) = n
            /\ \A f \in Range(findings) :
                  Occurrences(sorted_hits, f) = Occurrences(findings, f)
            /\ \A i \in 1..Len(top) :
                  /\ top[i].score = sorted_hits[i].score
                  /\ top[i].executed = sorted_hits[i].executed
                  /\ top[i].mode = sorted_hits[i].mode
            /\ \A i \in 1..Len(top) : \A j \in (i + 1)..n :
                  ~HasGreaterKey(sorted_hits[j], sorted_hits[i])

\* six findings, the first one reflected-only with two sink entries and a
\* score of 80, the second executed with a score of 80: the executed one
\* comes first in the top list, and the finding left out is one of the
\* lowest
C14_Witness ==
    /\ pc = "summarized"
    /\ Len(findings) = 6
    /\ Len(out.val.top_findings) = 5
    /\ findings[1].score = 80 /\ ~findings[1].executed
    /\ findings[2].score = 80 /\ findings[2].executed
    /\ out.val.top_findings[1].executed
    /\ ~out.val.top_findings[2].executed
    /\ sorted_hits[6].score = 30
    /\ \E i \in 1..5 : sorted_hits[i].score > 30

----------------------------------------------------------------------------
(* Claims about the session's resources, checked under SessionSpec          *)

\* the state of the resource r
ResourceState(r) ==
    CASE r = "_pw" -> _pw
      [] r = "browser" -> browser
      [] r = "context" -> context

\* C19: when the run has left the session, by whatever path (normal exit, an
\* exception in the body, an exception raised by a release step, a failure
\* part-way through the acquisition), every resource that was acquired has
\* been released exactly once.
C19_AcquiredIsReleasedOnce ==
    pc = "session_over" =>
        \A r \in Resources :
            ResourceState(r) # "none" =>
                /\ releases[r] = 1
                /\ ResourceState(r) = "closed"

----------------------------------------------------------------------------
(* Claims about the fuzzing loops and the detector, checked under FuzzSpec  *)

\* C16: in the URL-parameter phase, when the navigation of an attempt is
\* answered with status 403 or 429, the same request is issued once more,
\* after a sleep of the current backoff, before the attempt goes on: the
\* detector never runs on a throttled response to the attempt's only
\* request.
C16_ThrottledIsRetriedOnce ==
    (pc = "url_detect" /\ resp_status \in {Some(403), Some(429)}) =>
        /\ gotos = 2
        /\ slept = <<BackoffMs>>

\* the entries of results for the pair (pt, pl)
RecordsOf(pt, pl) ==
    {i \in 1..Len(results) : results[i].point = pt /\ results[i].payload = pl}

MarkerIsSubstringOf(s) ==
    \E k \in 1..(Len(s) - Len(FuzzMarker) + 1) :
        SubSeq(s, k, k + Len(FuzzMarker) - 1) = FuzzMarker

\* C20: after every detection, reflected tells whether the marker is a
\* substring of the DOM snapshot taken, whether the execution check gave
\* true, gave false or timed out; when the snapshot could not be read,
\* reflected is false and the attempt goes on.
C20_ReflectedIsMarkerInSnapshot ==
    wait_outcome # "none" =>
        /\ reflected = (dom.some /\ MarkerIsSubstringOf(dom.val))
        /\ executed = (wait_outcome = "signalled")

\* the execution check gave true and the snapshot holds the marker: both
\* signals are reported
C20_Witness ==
    /\ wait_outcome = "signalled"
    /\ dom.some
    /\ MarkerIsSubstringOf(dom.val)
    /\ executed
    /\ reflected
    /\ Len(results) > 0
    /\ results[Len(results)].reflected = Some(TRUE)

----------------------------------------------------------------------------
(* Claims about run, checked under RunSpec                                  *)

\* C18: once the browser session has been obtained, the run ends with a
\* report written that holds every finding collected so far, also when the
\* first navigation, the navigation that opens a phase, or the scoring
\* raises.
C18_RunEndsWithReport ==
    pc \in {"run_done", "run_raised"} => report = Some(run_results)

----------------------------------------------------------------------------
(* Claims about the fragment fallback, checked under FuzzSpec               *)

\* the attempt of the record ran to its end and found neither signal
NeitherSignal(rec) ==
    /\ ~rec.error
    /\ rec.executed = Some(FALSE)
    /\ rec.reflected = Some(FALSE)

\* the two records are of the same (parameter, payload) pair
SamePair(a, b) == a.point = b.point /\ a.payload = b.payload

\* the record is of the pair the loops are at
OfCurrentPair(rec) == rec.point = point_i /\ rec.payload = payload_i

\* C25: in the URL-parameter phase a fragment attempt is made for a pair
\* exactly when the pair's parameter attempt ran to its end with executed
\* and reflected both false; it comes right after that parameter attempt,
\* before any attempt of another pair.
C25_FragmentFollowsSilentParameterAttempt ==
    /\ \A i \in 1..Len(results) :
          results[i].mode = "url_fragment" =>
             /\ i > 1
             /\ results[i - 1].mode = "url_param"
             /\ NeitherSignal(results[i - 1])
             /\ SamePair(results[i - 1], results[i])
    /\ \A i \in 1..Len(results) :
          (results[i].mode = "url_param" /\ ~results[i].error) =>
             IF NeitherSignal(results[i])
             THEN IF i = Len(results)
                  THEN /\ OfCurrentPair(results[i])
                       /\ \/ pc = "url_fragment"
                          \/ pc = "url_except" /\ fragment_tried
                  ELSE SamePair(results[i + 1], results[i])
             ELSE IF i = Len(results)
                  THEN OfCurrentPair(results[i]) => ~fragment_tried
                  ELSE ~SamePair(results[i + 1], results[i])

\* a parameter attempt found neither signal, the fragment attempt of its
\* pair is the next record, and the record after that is of another pair
C25_Witness ==
    \E i \in 1..(Len(results) - 2) :
        /\ results[i].mode = "url_param"
        /\ NeitherSignal(results[i])
        /\ results[i + 1].mode = "url_fragment"
        /\ SamePair(results[i + 1], results[i])
        /\ ~SamePair(results[i + 2], results[i])

----------------------------------------------------------------------------
(* Claims about what the attempts are made with, checked under              *)
(* FuzzInputsSpec                                                           *)

\* the tag of the evidence of the attempt a record of results is of
TagOf(rec) == Tag(rec.mode, point_names[rec.point], hashes[rec.payload])

\* C28: no two evidence captures of a phase are written under the same tag:
\* the tags of the attempts that ran to their end differ from one another,
\* also when two fields have the same name and when two payloads have the
\* same reduced hash.
C28_TagsAreDistinct ==
    \A i, j \in 1..Len(results) :
        (i < j /\ ~results[i].error /\ ~results[j].error) =>
            TagOf(results[i]) # TagOf(results[j])

\* the pairs of the query q whose key is not pname, in their order
OtherPairs(q, pname) == SelectSeq(q, LAMBDA pr : pr.k # pname)

\* C29: the query of the URL of a parameter attempt holds every pair of the
\* original query whose key is not the target parameter, in the original
\* order and as many times, and the target parameter once, set to the
\* payload.
C29_QueryKeepsOtherPairs ==
    pc = "url_detect" =>
        /\ OtherPairs(new_query, point_names[point_i])
             = OtherPairs(orig_params, point_names[point_i])
        /\ SelectSeq(new_query, LAMBDA pr : pr.k = point_names[point_i])
             = <<Pair(point_names[point_i], FuzzPayloads[payload_i])>>

\* C30: in per-request mode every navigation of an attempt has a rotation
\* of the user agent of its own before it, in the parameter attempt, in the
\* fragment fallback and in the form attempt; in session mode the user
\* agent is never rotated.
C30_RotationBeforeEveryNavigation ==
    /\ ua_mode = "per-request" =>
          /\ rotations >= gotos
          /\ (/\ pc \in {"form_attempt", "phase_done"}
              /\ gotos = 0
              /\ results # <<>>
              /\ ~results[Len(results)].error) => rotations = 1
    /\ ua_mode = "session" => rotations = 0

----------------------------------------------------------------------------
(* Claims about the trace collection, checked under SessionSpec             *)

\* C27: with trace capture enabled, trace collection is running whenever an
\* attempt of the body begins, however many traces were exported before and
\* however those exports ended.
C27_TracingRunsAtEveryAttempt ==
    (pc = "body" /\ trace_on_hit) => tracing

----------------------------------------------------------------------------
(* Claims about the instrumented page, checked under PageSpec               *)

\* the title channel carries the hit signal of the run's marker
TitleSignals ==
    \E k \in 1..Len(title) :
        SubSeq(title, k, Len(title)) = HitTitle(FuzzMarker)

\* C21: the execution signal is raised only when the payload's script ran:
\* in a document that shows the marker without running the payload, the
\* title channel does not signal and the attempt is reported with executed
\* false.
C21_SignalOnlyWhenScriptRan ==
    /\ (hook_layers > 0 /\ TitleSignals) => script_ran
    /\ (page_hit.some /\ page_hit.val.executed) => script_ran

\* C22: when the payload's script ran in an instrumented document and the
\* wait for the execution signal did not run out, the attempt is reported
\* with executed true.
C22_RanScriptIsReportedExecuted ==
    (/\ pc = "page_checked"
     /\ hook_layers > 0
     /\ script_ran
     /\ page_wait # "timed_out") => page_hit.val.executed

\* C23: whatever the number of attempts made before, every call of a hooked
\* primitive in an instrumented document has added one entry to the sink
\* log and has reached the original primitive once: the log and the calls
\* the originals received are the same sequence.
C23_OneEntryPerSinkCall ==
    hook_layers > 0 => sink_log = original_calls

\* a is the beginning of b
IsBeginningOf(a, b) == Len(a) <= Len(b) /\ SubSeq(b, 1, Len(a)) = a

\* C24: reading the sink log does not change it: the entries an attempt
\* recorded are the log as it stands after the read, and they begin with the
\* entries recorded by the attempt before it on the same document, which
\* registered the scripts again in between.
C24_ReadingKeepsTheLog ==
    (/\ pc = "page_idle"
     /\ page_hit.some
     /\ page_hit.val.sinks_read) =>
        /\ page_hit.val.sinks = sink_log
        /\ prev_sinks.some => IsBeginningOf(prev_sinks.val, page_hit.val.sinks)

\* a second attempt on a document recorded the entry the first recorded and
\* one more after it
C24_Witness ==
    /\ pc = "page_idle"
    /\ init_scripts = 2
    /\ prev_sinks = Some(<<"document.write">>)
    /\ page_hit.some
    /\ page_hit.val.sinks_read
    /\ page_hit.val.sinks = <<"document.write", "innerHTML">>

\* C26: evidence is captured only for attempts with a signal: a finding
\* carries a screenshot or a trace only when it is executed or reflected.
C26_EvidenceOnlyWithSignal ==
    (page_hit.some /\ (page_hit.val.screenshot \/ page_hit.val.trace)) =>
        (page_hit.val.executed \/ page_hit.val.reflected)

----------------------------------------------------------------------------
(* Claims about the pacing of the attempts, checked under FuzzInputsSpec    *)

\* the delay d is within the jitter of the pacing base
WithinJitter(d) ==
    /\ 100 * d >= pacing_ms * (100 - jitter_pct)
    /\ 100 * d <= pacing_ms * (100 + jitter_pct)

\* C31: with a pacing base above 0, an attempt that is over, with a finding
\* or with an error, has slept once, for a time within the jitter of the
\* base, when the next attempt begins; with a base of 0 no attempt makes a
\* pacing sleep, the only sleep being the backoff after an error.
C31_OnePacedSleepBetweenAttempts ==
    (pc \in {"form_attempt", "url_attempt"} /\ results # <<>>) =>
        IF pacing_ms > 0
        THEN /\ Len(slept) = 1
             /\ WithinJitter(slept[1])
        ELSE \/ slept = <<>>
             \/ results[Len(results)].error /\ slept = <<BackoffMs>>

----------------------------------------------------------------------------
(* Claims about the records of the URL phase, checked under FuzzSpec        *)

\* the records of mode url_param of the pair (pt, pl)
UrlParamRecordsOf(pt, pl) ==
    {i \in RecordsOf(pt, pl) : results[i].mode = "url_param"}

\* C34: in the URL phase every (parameter, payload) pair has at most one
\* record of mode url_param in results, a signal record or an error record
\* and never both, and exactly one when the phase is done, whatever step of
\* its attempt raised, the fragment fallback included.
C34_OneUrlParamRecordPerPair ==
    \A pt \in 1..points : \A pl \in 1..Len(FuzzPayloads) :
        /\ Cardinality(UrlParamRecordsOf(pt, pl)) <= 1
        /\ (pc = "phase_done" /\ results[1].mode # "form") =>
              Cardinality(UrlParamRecordsOf(pt, pl)) = 1

----------------------------------------------------------------------------
(* Claims about the end of a phase, checked under FuzzLiveSpec              *)

----------------------------------------------------------------------------
(* Claims about the order of the attempts, checked under PageSpec           *)

----------------------------------------------------------------------------
(* Claims about the marker in the payloads, checked under BuildSpec         *)

\* C35: every payload made from a template that holds {MARKER} or {JSCMD}
\* holds the run marker, unchanged and in one piece, after the evasion
\* transforms.
C35_VariantsKeepMarker ==
    (/\ pc = "build_loop"
     /\ tpl_i > 1
     /\ \/ Contains(templates[tpl_i - 1], PhMarker)
        \/ Contains(templates[tpl_i - 1], PhJsCmd)) =>
        \A i \in 1..Len(variants) : Contains(variants[i], marker)

====
